---- MODULE Spec2Model ----
(***************************************************************************)
(* A model of the authentication and authorization core of go-crud-api:    *)
(* the token issuer/verifier (pkg/jwt), the user service and its HTTP      *)
(* handlers, the access control middleware, and the product handlers with  *)
(* their ownership gate, over a relational store and a wall clock.         *)
(***************************************************************************)
EXTENDS Integers, Sequences, FiniteSets, TLC

VARIABLES
    now,        \* the wall clock (time.Now), in ticks
    cfg,        \* config.Config: JWTSecret, AccessTokenTTL, RefreshTokenTTL
    users,      \* the users table: a set of User rows
    products,   \* the products table: a set of Product rows
    nextPID,    \* the next product id the store generates
    req,        \* the requests being processed, one record per connection
    last,       \* the request just answered, with its response
    gen,        \* token harness: one GenerateTokens call, inputs and results
    val,        \* token harness: the last ValidateToken call
    gate        \* role-gate harness: one HasRoleMiddleware run, input and outcome

vars == <<now, cfg, users, products, nextPID, req, last, gen, val, gate>>

----------------------------------------------------------------------------
(* Bounds of the model.                                                    *)

MaxTime == 3          \* the clock stops at this tick
MaxStep == 1          \* ticks that may pass between two steps of one call
MaxProducts == 1      \* products ever created

(* jwt.TimePrecision is one second; the model's clock counts half seconds. *)
TicksPerSecond == 2

Min(a, b) == IF a < b THEN a ELSE b

----------------------------------------------------------------------------
(* uuid.UUID values are numbers; uuid.Nil is 0. Their text form and its    *)
(* parser are kept apart from the value.                                   *)

UUIDNil == 0
UUIDString(id) == <<"uuid", id>>
UUIDParse(s) ==
    IF Len(s) = 2 /\ s[1] = "uuid" THEN [id |-> s[2], err |-> ""]
    ELSE [id |-> UUIDNil, err |-> "invalid UUID"]

----------------------------------------------------------------------------
(* pkg/jwt: the token issuer and verifier.                                 *)
(* A token string is its three segments <<header, claims, signature>>;     *)
(* the empty string is <<>>. The MAC is ideal: a signature is determined   *)
(* by, and determines, the algorithm, the key and the signed text.         *)

HMACAlgs == {"HS256", "HS384", "HS512"}
KnownAlgs == HMACAlgs \cup {"RS256", "none"}

NoClaims == [user_id |-> UUIDNil, role |-> "", exp |-> 0, iat |-> 0, nbf |-> 0,
             sub |-> <<>>]

NewNumericDate(t) == t - (t % TicksPerSecond)

HMAC(alg, key, text) == [alg |-> alg, key |-> key, text |-> text]

SignedString(header, claims, key, signOK) ==
    IF signOK
    THEN [tok |-> <<header, claims, HMAC(header.alg, key, <<header, claims>>)>>,
          err |-> ""]
    ELSE [tok |-> <<>>, err |-> "hash unavailable"]

(* The claims with the user's id in Subject alone.                         *)
ClaimsSubjectOnly(userID, userRole, ttl, clk) ==
    [user_id |-> UUIDNil,
     role    |-> userRole,
     exp     |-> NewNumericDate(clk[1] + ttl),
     iat     |-> NewNumericDate(clk[2]),
     nbf     |-> NewNumericDate(clk[3]),
     sub     |-> UUIDString(userID)]

(* The Claims generateToken builds. clk = the three successive readings of *)
(* time.Now() it makes.                                                    *)
Claims(userID, userRole, ttl, clk) ==
    [user_id |-> userID,
     role    |-> userRole,
     exp     |-> NewNumericDate(clk[1] + ttl),
     iat     |-> NewNumericDate(clk[2]),
     nbf     |-> NewNumericDate(clk[3]),
     sub     |-> UUIDString(userID)]

generateToken(userID, userRole, secret, ttl, clk, signOK) ==
    LET claims == Claims(userID, userRole, ttl, clk)
        signed == SignedString([alg |-> "HS256", typ |-> "JWT"], claims,
                               secret, signOK)
    IN  IF signed.err # ""
        THEN [tok |-> <<>>, err |-> "failed to sign token: " \o signed.err]
        ELSE [tok |-> signed.tok, err |-> ""]

(* GenerateTokens handing out the access token it has when the refresh    *)
(* token cannot be signed.                                                 *)
GenerateTokensPartial(userID, userRole, secret, accessTokenTTL, refreshTokenTTL, clkA, clkR, signA, signR) ==
    LET a == generateToken(userID, userRole, secret, accessTokenTTL, clkA, signA)
        r == generateToken(userID, userRole, secret, refreshTokenTTL, clkR, signR)
    IN  IF a.err # "" THEN [access |-> <<>>, refresh |-> <<>>, err |-> a.err]
        ELSE IF r.err # "" THEN [access |-> a.tok, refresh |-> <<>>, err |-> r.err]
        ELSE [access |-> a.tok, refresh |-> r.tok, err |-> ""]

(* GenerateTokens with the refresh token's error left unchecked.            *)
GenerateTokensErrUnchecked(userID, userRole, secret, accessTokenTTL, refreshTokenTTL, clkA, clkR, signA, signR) ==
    LET a == generateToken(userID, userRole, secret, accessTokenTTL, clkA, signA)
        r == generateToken(userID, userRole, secret, refreshTokenTTL, clkR, signR)
    IN  IF a.err # "" THEN [access |-> <<>>, refresh |-> <<>>, err |-> a.err]
        ELSE [access |-> a.tok, refresh |-> r.tok, err |-> ""]

GenerateTokens(userID, userRole, secret, accessTokenTTL, refreshTokenTTL, clkA, clkR, signA, signR) ==
    LET a == generateToken(userID, userRole, secret, accessTokenTTL, clkA, signA)
        r == generateToken(userID, userRole, secret, refreshTokenTTL, clkR, signR)
    IN  IF a.err # "" THEN [access |-> <<>>, refresh |-> <<>>, err |-> a.err]
        ELSE IF r.err # "" THEN [access |-> <<>>, refresh |-> <<>>, err |-> r.err]
        ELSE [access |-> a.tok, refresh |-> r.tok, err |-> ""]

(* A key function that answers with the key of the first deployment.      *)
KeyfuncFixedKey(header, secret) ==
    IF header.alg \notin HMACAlgs
    THEN [key |-> "", err |-> "unexpected signing method"]
    ELSE [key |-> "s1", err |-> ""]

(* The key function ValidateToken hands to the parser.                     *)
Keyfunc(header, secret) ==
    IF header.alg \notin HMACAlgs
    THEN [key |-> "", err |-> "unexpected signing method"]
    ELSE [key |-> secret, err |-> ""]

(* The parser called with validation of the claims switched off.           *)
ClaimsErrorUnvalidated(claims, t) == ""

(* The parser's validation of the registered claims at time t: exp must be *)
(* after t, nbf not after t; iat is not looked at.                         *)
(* A validation that takes only tokens of the short lifetime.              *)
ClaimsErrorAccessOnly(claims, t) ==
    IF ~(t < claims.exp) THEN "token has invalid claims: token is expired"
    ELSE IF t < claims.nbf THEN "token has invalid claims: token is not valid yet"
    ELSE IF claims.exp - claims.iat > TicksPerSecond
    THEN "token has invalid claims: not an access token"
    ELSE ""

ClaimsError(claims, t) ==
    IF ~(t < claims.exp) THEN "token has invalid claims: token is expired"
    ELSE IF t < claims.nbf THEN "token has invalid claims: token is not valid yet"
    ELSE ""

(* What jwt.ParseWithClaims reports, in the order it checks.               *)
ParseWithClaims(tokenString, secret, t) ==
    IF Len(tokenString) # 3 THEN "token is malformed"
    ELSE LET header == tokenString[1]
             claims == tokenString[2]
             sig    == tokenString[3]
             key    == Keyfunc(header, secret)
         IN  IF header.alg \notin KnownAlgs
                 THEN "token is unverifiable: signing method (alg) is unavailable"
             ELSE IF key.err # ""
                 THEN "token is unverifiable: " \o key.err
             ELSE IF sig # HMAC(header.alg, key.key, <<header, claims>>)
                 THEN "token signature is invalid"
             ELSE ClaimsError(claims, t)

(* ValidateToken taking the parsed claims without looking at the error.    *)
ValidateTokenErrIgnored(tokenString, secret, t) ==
    IF Len(tokenString) # 3
    THEN [claims |-> NoClaims, err |-> "failed to parse token: token is malformed"]
    ELSE [claims |-> tokenString[2], err |-> ""]

ValidateToken(tokenString, secret, t) ==
    LET err == ParseWithClaims(tokenString, secret, t)
    IN  IF err # ""
        THEN [claims |-> NoClaims, err |-> "failed to parse token: " \o err]
        ELSE [claims |-> tokenString[2], err |-> ""]

----------------------------------------------------------------------------
(* time.ParseDuration on the TTL settings. "7d" and "" are no durations:   *)
(* ParseDuration returns 0 and an error for them.                          *)

TTLStrings == {"", "7d", "500ms", "1s", "1500ms", "2s"}

ParseDuration(s) ==
    CASE s = "500ms"  -> [d |-> TicksPerSecond \div 2, err |-> ""]
      [] s = "1s"     -> [d |-> TicksPerSecond, err |-> ""]
      [] s = "1500ms" -> [d |-> TicksPerSecond + TicksPerSecond \div 2, err |-> ""]
      [] s = "2s"     -> [d |-> 2 * TicksPerSecond, err |-> ""]
      [] s = ""       -> [d |-> 0, err |-> "time: invalid duration"]
      [] OTHER        -> [d |-> 0, err |-> "time: unknown unit in duration"]

----------------------------------------------------------------------------
(* pkg/password (bcrypt). A hash embeds its salt; verification recomputes  *)
(* with that salt and is false for anything that is no bcrypt hash.        *)

Salts == {"salt1", "salt2"}

HashPassword(pass, salt, hashOK) ==
    IF hashOK THEN [hash |-> <<"$2a$", salt, pass>>, err |-> ""]
    ELSE [hash |-> <<>>, err |-> "bcrypt: failure"]

CheckPasswordHash(pass, hash) ==
    /\ Len(hash) = 3
    /\ hash[1] = "$2a$"
    /\ pass # ""
    /\ hash[3] = pass

----------------------------------------------------------------------------
(* The token harness: GenerateTokens applied once to inputs drawn by       *)
(* InitJwt, ValidateToken applied to its tokens and to foreign ones as the *)
(* clock advances.                                                         *)

Secrets == {"s1", "s2"}
Roles == {"user", "admin"}
Subjects == {1, 2}
TTLs == 0 .. (2 * TicksPerSecond)

(* Non-decreasing readings of the clock, n of them, starting at t.         *)
ClockReads(t, n) ==
    {c \in [1 .. n -> t .. Min(t + MaxStep, MaxTime)] :
        \A i \in 1 .. (n - 1) : c[i] <= c[i + 1]}

NoGen == [userID |-> UUIDNil, role |-> "", secret |-> "", accessTTL |-> 0,
          refreshTTL |-> 0, called |-> FALSE, access |-> <<>>, refresh |-> <<>>,
          err |-> ""]
NoVal == [called |-> FALSE, token |-> <<>>, secret |-> "", at |-> 0,
          claims |-> NoClaims, err |-> ""]

(* One run of HasRoleMiddleware(requiredRoles...) on a request context.    *)
NoGate == [ctx |-> [hasUserID |-> FALSE, userID |-> UUIDNil, hasRole |-> FALSE,
                    role |-> ""],
           requiredRoles |-> {}, called |-> FALSE, next |-> FALSE, status |-> 0,
           code |-> "", msg |-> ""]

(* Token strings no GenerateTokens call produces.                          *)
ForeignTokens(userID, role, secret) ==
    LET claims == [user_id |-> userID, role |-> role,
                   exp |-> NewNumericDate(MaxTime + TicksPerSecond),
                   iat |-> 0, nbf |-> 0, sub |-> UUIDString(userID)]
        with(alg) == SignedString([alg |-> alg, typ |-> "JWT"], claims,
                                  secret, TRUE).tok
    IN  {<<"garbage">>, with("HS384"),
         <<[alg |-> "none", typ |-> "JWT"], claims, <<>> >>,
         <<[alg |-> "HS256", typ |-> "JWT"], [claims EXCEPT !.role = "admin"],
           HMAC("HS256", secret, <<[alg |-> "HS256", typ |-> "JWT"], claims>>)>>}

JwtGenerate ==
    /\ ~gen.called
    /\ \E clk \in ClockReads(now, 6), signA \in BOOLEAN, signR \in BOOLEAN :
          LET out == GenerateTokens(gen.userID, gen.role, gen.secret,
                                    gen.accessTTL, gen.refreshTTL,
                                    <<clk[1], clk[2], clk[3]>>,
                                    <<clk[4], clk[5], clk[6]>>, signA, signR)
          IN  /\ gen' = [gen EXCEPT !.called = TRUE, !.access = out.access,
                                    !.refresh = out.refresh, !.err = out.err]
              /\ now' = clk[6]
    /\ UNCHANGED <<cfg, users, products, nextPID, req, last, val, gate>>

JwtValidate ==
    /\ gen.called
    /\ \E tok \in {gen.access, gen.refresh}
                  \cup ForeignTokens(gen.userID, gen.role, gen.secret),
          secret \in Secrets :
          LET out == ValidateToken(tok, secret, now)
          IN  val' = [called |-> TRUE, token |-> tok, secret |-> secret,
                      at |-> now, claims |-> out.claims, err |-> out.err]
    /\ UNCHANGED <<now, cfg, users, products, nextPID, req, last, gen, gate>>

----------------------------------------------------------------------------
(* The HTTP layer: requests, responses and the router.                     *)

Requests == {1, 2}

Routes == {"Register", "Login", "ListUsers", "ListProducts", "CreateProduct",
           "GetProductByID", "UpdateProduct", "DeleteProduct"}
ProductRoutes == {"ListProducts", "CreateProduct", "GetProductByID",
                  "UpdateProduct", "DeleteProduct"}

(* InitRouter: the handler chain each route is served by.                  *)
Chain(route) ==
    CASE route \in {"Register", "Login"} -> <<route>>
      [] route = "ListUsers" -> <<"AuthMiddleware", "HasRoleMiddleware", route>>
      [] OTHER -> <<"AuthMiddleware", route>>

(* The users route composed with HasRoleMiddleware("admin", "user").       *)
RequiredRolesBoth(route) == IF route = "ListUsers" THEN {"admin", "user"} ELSE {}

(* The roles HasRoleMiddleware is composed with on a route.                *)
RequiredRoles(route) == IF route = "ListUsers" THEN {"admin"} ELSE {}

(* next.ServeHTTP: the stage of the chain after the n stages run so far.   *)
NextStage(route, n) == Chain(route)[n + 1]

NoCtx == [hasUserID |-> FALSE, userID |-> UUIDNil, hasRole |-> FALSE, role |-> ""]
NoProduct == [ID |-> UUIDNil, Name |-> "", Description |-> "", Price |-> 0,
              Stock |-> 0, OwnerID |-> UUIDNil]
NoBody == [Name |-> "", Description |-> "", Price |-> 0, Stock |-> 0]
NoSvc == [called |-> FALSE, args |-> <<>>, err |-> "", access |-> <<>>,
          refresh |-> <<>>, user |-> <<>>]
NoData == <<>>

NoTok == [user_id |-> UUIDNil, role |-> "", sub |-> <<>>]

(* route, pc, ctx, id, body, product: the request and its handler's        *)
(* locals. The rest records what happened to it: the JSON body as sent to  *)
(* Register and Login (input), the stages run (trail),                     *)
(* the shape of its Authorization header, the claims of the token it       *)
(* carried (tok), whether that token verified and whether it was presented *)
(* after its expiry (late), the owner found by the ownership gate, the     *)
(* store calls made, the service's arguments and result (svc) and the      *)
(* response.                                                               *)
Idle == [pc |-> "idle", route |-> "", input |-> <<>>, trail |-> <<>>,
         shape |-> <<>>,
         tok |-> NoTok, verified |-> FALSE, late |-> FALSE,
         outlived |-> FALSE,
         ctx |-> NoCtx, id |-> UUIDNil, body |-> NoBody, product |-> NoProduct,
         owner |-> UUIDNil, reads |-> 0, writes |-> 0, svc |-> NoSvc,
         status |-> 0, code |-> "", msg |-> "", data |-> NoData]

RespondWithJSON(q, statusCode, data) ==
    [q EXCEPT !.pc = "done", !.status = statusCode, !.data = data]

RespondWithError(q, code, message, statusCode) ==
    [q EXCEPT !.pc = "done", !.status = statusCode, !.code = code,
              !.msg = message]

(* The response is written and the connection is free again. The answered *)
(* request stays on record in last until Close, the step after.            *)
Finish(r, q) ==
    /\ last' = q
    /\ req' = [req EXCEPT ![r] = Idle]

Continue(r, q) ==
    /\ req' = [req EXCEPT ![r] = q]
    /\ UNCHANGED last

Quiet == last.pc = "idle"

(* The stage pc of request r is about to run.                              *)
At(r, pc) == Quiet /\ req[r].pc = pc

(* A new request is taken on the first free connection.                    *)
Accepts(r) ==
    /\ At(r, "idle")
    /\ \A o \in Requests : o < r => req[o].pc # "idle"

Close ==
    /\ ~Quiet
    /\ last' = Idle
    /\ UNCHANGED <<now, cfg, users, products, nextPID, req, gen, val, gate>>

----------------------------------------------------------------------------
(* The Authorization header: a text of words, separators and token         *)
(* strings. strings.Split cuts it at every single space.                   *)

Word(s) == [k |-> "word", v |-> s]
Sep(s) == [k |-> "sep", v |-> s]
Tok(t) == [k |-> "tok", v |-> t]

(* A separator of any kind of whitespace.                                  *)
IsWhitespace(a) == a.k = "sep"

IsSpace(a) == a.k = "sep" /\ a.v = " "

RECURSIVE Split(_)
Split(h) ==
    IF Len(h) = 0 THEN << <<>> >>
    ELSE LET rest == Split(Tail(h))
         IN  IF IsSpace(Head(h)) THEN << <<>> >> \o rest
             ELSE << <<Head(h)>> \o rest[1] >> \o Tail(rest)

ToLower(s) ==
    CASE s = "Bearer" -> "bearer"
      [] s = "BEARER" -> "bearer"
      [] s = "Basic"  -> "basic"
      [] OTHER        -> s

(* The text of one part of the header, as a scheme and as a token string.  *)
PartString(part) ==
    IF Len(part) = 1 /\ part[1].k = "word" THEN part[1].v ELSE "?"
PartToken(part) ==
    IF Len(part) = 0 THEN <<>>
    ELSE IF Len(part) = 1 /\ part[1].k = "tok" THEN part[1].v
    ELSE <<"garbage">>

(* The token strings a client may present: every one a Login can have     *)
(* handed out by now for an identity of the store, and ones made without   *)
(* the configured secret.                                                  *)
PastReads(from) ==
    UNION {{<<c1, c2, c3>> : c3 \in c2 .. Min(c1 + MaxStep, now)} :
              <<c1, c2>> \in {x \in (from .. now) \X (from .. now) :
                                 x[1] <= x[2] /\ x[2] <= x[1] + MaxStep}}

TokensOf(u, from) ==
    {generateToken(u.ID, u.Role, cfg.JWTSecret, ParseDuration(ttl).d, clk, TRUE).tok :
        ttl \in {cfg.AccessTokenTTL, cfg.RefreshTokenTTL}, clk \in PastReads(from)}

IssuableTokens == UNION {TokensOf(u, 0) : u \in users}
FreshTokens == UNION {TokensOf(u, now) : u \in users}

OutsiderTokens ==
    ForeignTokens(9, "admin", "s2")
        \cup {generateToken(9, "admin", "s2", MaxTime + TicksPerSecond,
                            <<0, 0, 0>>, TRUE).tok}

Headers ==
    {<<>>}
        \cup {<<Word("Bearer"), Sep(" "), Tok(t)>> :
                 t \in IssuableTokens \cup OutsiderTokens}
        \cup {<<Word("bearer"), Sep(" "), Tok(t)>> : t \in FreshTokens}
        \cup {<<Word("Basic"), Sep(" "), Tok(t)>> : t \in FreshTokens}
        \cup {<<Word("Bearer")>>,
              <<Word("Bearer"), Sep(" ")>>,
              <<Word("Bearer"), Sep(" "), Sep(" "), Word("x")>>,
              <<Word("Bearer"), Sep("\t"), Word("x")>>,
              <<Word("Bearer"), Sep(" "), Word("x"), Sep(" "), Word("y")>>}

(* The refresh tokens Login can have returned, and whether a presented     *)
(* token is one of them that is unexpired while the access token of the    *)
(* same login, issued no later, has expired.                               *)
RefreshTokens ==
    UNION {{generateToken(u.ID, u.Role, cfg.JWTSecret,
                          ParseDuration(cfg.RefreshTokenTTL).d, clk, TRUE).tok :
               clk \in PastReads(0)} : u \in users}

Outlived(t) ==
    /\ t \in RefreshTokens
    /\ now < t[2].exp
    /\ now >= t[2].iat + ParseDuration(cfg.AccessTokenTTL).d

(* What a request's record keeps of its header: the header with the text   *)
(* of its token strings left out, and the token string a header of the     *)
(* form "<bearer in any case> <one segment>" carries.                      *)
Shape(hdr) ==
    [i \in 1 .. Len(hdr) |-> IF hdr[i].k = "tok" THEN Tok(<<>>) ELSE hdr[i]]

IsBearerHeader(hdr) ==
    /\ Len(hdr) = 3
    /\ hdr[1].k = "word" /\ hdr[1].v \in {"Bearer", "bearer", "BEARER"}
    /\ IsSpace(hdr[2])
    /\ hdr[3].k # "sep"

Presented(hdr) ==
    IF ~IsBearerHeader(hdr) THEN <<>>
    ELSE IF hdr[3].k = "tok" THEN hdr[3].v ELSE <<"garbage">>

Observe(route, hdr) ==
    LET t == Presented(hdr)
    IN  [Idle EXCEPT
            !.route = route,
            !.trail = <<"AuthMiddleware">>,
            !.shape = Shape(hdr),
            !.tok = IF Len(t) = 3
                    THEN [user_id |-> t[2].user_id, role |-> t[2].role,
                          sub |-> t[2].sub]
                    ELSE NoTok,
            !.verified = IsBearerHeader(hdr)
                         /\ ParseWithClaims(t, cfg.JWTSecret, now) = "",
            !.late = Len(t) = 3 /\ now > t[2].exp,
            !.outlived = Outlived(t)]

----------------------------------------------------------------------------
(* internal/http/middleware.                                               *)

(* An identity kept in one place for all requests: the request takes the   *)
(* identity a request in flight has bound, when there is one.              *)
BindShared(q, claims) ==
    IF \E o \in Requests : req[o].ctx.hasUserID
    THEN [q EXCEPT !.ctx = (CHOOSE c \in {req[o].ctx : o \in Requests} :
                                c.hasUserID)]
    ELSE [q EXCEPT !.ctx = [hasUserID |-> TRUE, userID |-> claims.user_id,
                            hasRole |-> TRUE, role |-> claims.role]]

(* An answer to a token that does not validate which tells why.            *)
TokenFailureVerbose(q, err) == RespondWithError(q, "unauthorized", err, 401)

(* AuthMiddleware's answer to a token that does not validate, whatever     *)
(* error ValidateToken returned.                                           *)
TokenFailure(q, err) ==
    RespondWithError(q, "unauthorized", "Invalid or expired token", 401)

(* context.WithValue, twice, on the request's own context.                 *)
Bind(q, claims) ==
    [q EXCEPT !.ctx = [hasUserID |-> TRUE, userID |-> claims.user_id,
                       hasRole |-> TRUE, role |-> claims.role]]

AuthMiddleware(r) ==
    /\ Accepts(r)
    /\ \E route \in Routes, hdr \in Headers :
          /\ Chain(route)[1] = "AuthMiddleware"
          /\ LET q == Observe(route, hdr)
                 parts == Split(hdr)
             IN  IF Len(hdr) = 0
                 THEN Finish(r, RespondWithError(q, "unauthorized",
                                "Authorization header required", 401))
                 ELSE IF Len(parts) # 2 \/ ToLower(PartString(parts[1])) # "bearer"
                 THEN Finish(r, RespondWithError(q, "unauthorized",
                                "Invalid authorization header format", 401))
                 ELSE LET out == ValidateToken(PartToken(parts[2]), cfg.JWTSecret, now)
                      IN  IF out.err # ""
                          THEN Finish(r, TokenFailure(q, out.err))
                          ELSE Continue(r, [Bind(q, out.claims) EXCEPT
                                   !.pc = NextStage(route, 1)])
    /\ UNCHANGED <<now, cfg, users, products, nextPID, gen, val, gate>>

(* The gate without the test that a role is bound at all.                  *)
HasRoleUnbound(ctx, requiredRoles) ==
    IF ctx.role \notin requiredRoles
    THEN [next |-> FALSE, code |-> "forbidden",
          msg |-> "Insufficient permissions", status |-> 403]
    ELSE [next |-> TRUE, code |-> "", msg |-> "", status |-> 0]

(* The decision of HasRoleMiddleware(requiredRoles...) on a request's      *)
(* context: the error it answers with, or next.                            *)
HasRole(ctx, requiredRoles) ==
    IF ~ctx.hasRole
    THEN [next |-> FALSE, code |-> "forbidden",
          msg |-> "Role not found in context", status |-> 403]
    ELSE IF ctx.role \notin requiredRoles
    THEN [next |-> FALSE, code |-> "forbidden",
          msg |-> "Insufficient permissions", status |-> 403]
    ELSE [next |-> TRUE, code |-> "", msg |-> "", status |-> 0]

HasRoleMiddleware(r) ==
    /\ At(r, "HasRoleMiddleware")
    /\ LET q == [req[r] EXCEPT !.trail = Append(@, "HasRoleMiddleware")]
           out == HasRole(q.ctx, RequiredRoles(q.route))
       IN  IF ~out.next
           THEN Finish(r, RespondWithError(q, out.code, out.msg, out.status))
           ELSE Continue(r, [q EXCEPT !.pc = NextStage(q.route, Len(q.trail))])
    /\ UNCHANGED <<now, cfg, users, products, nextPID, gen, val, gate>>

----------------------------------------------------------------------------
(* The users table and its repository (GORM over Postgres). Every call may *)
(* fail (dbOK = FALSE) and then leaves the table as it was.                *)

AdminSeed == [ID |-> 9, Name |-> "Root", Email |-> "root@example.com",
              PasswordHash |-> <<"$2a$", "salt1", "password123">>,
              Role |-> "admin"]

NoUser == [ID |-> UUIDNil, Name |-> "", Email |-> "", PasswordHash |-> <<>>,
           Role |-> ""]

(* uuid_generate_v4(): an id no row has had; rows are never deleted.       *)
NewUserID == Cardinality(users) + 1

(* Create: the unique index on users(email) rejects a second row; the id   *)
(* is generated, and a role left empty takes the column's default.         *)
UserRepoCreate(user, dbOK) ==
    IF ~dbOK THEN [users |-> users, user |-> user, err |-> "db error"]
    ELSE IF \E u \in users : u.Email = user.Email
    THEN [users |-> users, user |-> user,
          err |-> "duplicate key value violates unique constraint"]
    ELSE LET row == [user EXCEPT !.ID = NewUserID,
                                 !.Role = IF @ = "" THEN "user" ELSE @]
         IN  [users |-> users \cup {row}, user |-> row, err |-> ""]

FindByEmail(email, dbOK) ==
    IF ~dbOK THEN [user |-> NoUser, err |-> "db error"]
    ELSE IF \E u \in users : u.Email = email
    THEN [user |-> CHOOSE u \in users : u.Email = email, err |-> ""]
    ELSE [user |-> NoUser, err |-> "record not found"]

UserRepoList(dbOK) ==
    IF dbOK THEN [users |-> users, err |-> ""] ELSE [users |-> {}, err |-> "db error"]

(* encoding/json of a User whose PasswordHash has a json name.             *)
UserJSONWithHash(u) ==
    [id |-> u.ID, name |-> u.Name, email |-> u.Email, role |-> u.Role,
     password_hash |-> u.PasswordHash]

(* encoding/json of a User: PasswordHash is tagged json:"-".               *)
UserJSON(u) == [id |-> u.ID, name |-> u.Name, email |-> u.Email, role |-> u.Role]

----------------------------------------------------------------------------
(* internal/domain/users: the service.                                     *)

(* The User built with the other role of the user_role type.               *)
NewUserAdminRole(name, email, hash) ==
    [ID |-> UUIDNil, Name |-> name, Email |-> email, PasswordHash |-> hash,
     Role |-> "admin"]

(* The User Service.Register builds.                                       *)
NewUser(name, email, hash) ==
    [ID |-> UUIDNil, Name |-> name, Email |-> email, PasswordHash |-> hash,
     Role |-> "user"]

(* Register that calls repo.Create a second time when the first fails.     *)
ServiceRegisterRetry(name, email, pass, salt, hashOK, dbOK) ==
    LET hashed == HashPassword(pass, salt, hashOK)
        user == NewUser(name, email, hashed.hash)
        created == UserRepoCreate(user, dbOK)
        again == UserRepoCreate(user, TRUE)
    IN  IF hashed.err # ""
        THEN [user |-> NoUser, err |-> hashed.err, users |-> users, writes |-> 0]
        ELSE IF created.err = ""
        THEN [user |-> created.user, err |-> "", users |-> created.users,
              writes |-> 1]
        ELSE IF again.err # ""
        THEN [user |-> NoUser, err |-> again.err, users |-> again.users,
              writes |-> 2]
        ELSE [user |-> again.user, err |-> "", users |-> again.users,
              writes |-> 2]

ServiceRegister(name, email, pass, salt, hashOK, dbOK) ==
    LET hashed == HashPassword(pass, salt, hashOK)
        user == NewUser(name, email, hashed.hash)
        created == UserRepoCreate(user, dbOK)
    IN  IF hashed.err # ""
        THEN [user |-> NoUser, err |-> hashed.err, users |-> users, writes |-> 0]
        ELSE IF created.err # ""
        THEN [user |-> NoUser, err |-> created.err, users |-> created.users,
              writes |-> 1]
        ELSE [user |-> created.user, err |-> "", users |-> created.users,
              writes |-> 1]

(* Login that issues every token with the role "admin".                    *)
ServiceLoginAsAdmin(email, pass, dbOK, clk, signA, signR) ==
    LET found == FindByEmail(email, dbOK)
        accessTTL == ParseDuration(cfg.AccessTokenTTL).d
        refreshTTL == ParseDuration(cfg.RefreshTokenTTL).d
        out == GenerateTokens(found.user.ID, "admin", cfg.JWTSecret,
                              accessTTL, refreshTTL, <<clk[1], clk[2], clk[3]>>,
                              <<clk[4], clk[5], clk[6]>>, signA, signR)
    IN  IF found.err # ""
        THEN [access |-> <<>>, refresh |-> <<>>, err |-> found.err, reads |-> 0]
        ELSE IF ~CheckPasswordHash(pass, found.user.PasswordHash)
        THEN [access |-> <<>>, refresh |-> <<>>,
              err |-> "invalid email or password", reads |-> 0]
        ELSE IF out.err # ""
        THEN [access |-> <<>>, refresh |-> <<>>, err |-> out.err,
              reads |-> IF signA THEN 6 ELSE 3]
        ELSE [access |-> out.access, refresh |-> out.refresh, err |-> "",
              reads |-> 6]

(* clk = the six readings of the clock GenerateTokens makes. reads is how  *)
(* many of them were made.                                                 *)
ServiceLogin(email, pass, dbOK, clk, signA, signR) ==
    LET found == FindByEmail(email, dbOK)
        accessTTL == ParseDuration(cfg.AccessTokenTTL).d
        refreshTTL == ParseDuration(cfg.RefreshTokenTTL).d
        out == GenerateTokens(found.user.ID, found.user.Role, cfg.JWTSecret,
                              accessTTL, refreshTTL, <<clk[1], clk[2], clk[3]>>,
                              <<clk[4], clk[5], clk[6]>>, signA, signR)
    IN  IF found.err # ""
        THEN [access |-> <<>>, refresh |-> <<>>, err |-> found.err, reads |-> 0]
        ELSE IF ~CheckPasswordHash(pass, found.user.PasswordHash)
        THEN [access |-> <<>>, refresh |-> <<>>,
              err |-> "invalid email or password", reads |-> 0]
        ELSE IF out.err # ""
        THEN [access |-> <<>>, refresh |-> <<>>, err |-> out.err,
              reads |-> IF signA THEN 6 ELSE 3]
        ELSE [access |-> out.access, refresh |-> out.refresh, err |-> "",
              reads |-> 6]

ServiceList(dbOK) == UserRepoList(dbOK)

----------------------------------------------------------------------------
(* internal/domain/users: the HTTP handlers. A request body is the JSON    *)
(* object the client sent (ok = FALSE: no JSON); json.Decode keeps the     *)
(* fields the request struct declares and drops the others.                *)

WellFormedEmails ==
    {"ann@example.com", "Ann@Example.com", "bob@example.com", "root@example.com"}

RegisterBodies ==
    {[ok |-> FALSE, name |-> "", email |-> "", password |-> "", role |-> ""]}
        \cup {[ok |-> TRUE, name |-> n, email |-> e, password |-> p, role |-> ro] :
                 <<n, e, p>> \in {<<"Ann", "ann@example.com", "password123">>,
                                  <<"A", "ann@example.com", "password123">>,
                                  <<"Ann", "not-an-email", "password123">>,
                                  <<"Ann", "ann@example.com", "short">>},
                 ro \in {"", "admin"}}

LoginBodies ==
    {[ok |-> FALSE, email |-> "", password |-> ""]}
        \cup {[ok |-> TRUE, email |-> e, password |-> p] :
                 <<e, p>> \in {<<"ann@example.com", "password123">>,
                               <<"Ann@Example.com", "password123">>,
                               <<"ann@example.com", "wrongpass">>,
                               <<"bob@example.com", "password123">>,
                               <<"root@example.com", "password123">>,
                               <<"root@example.com", "wrongpass">>,
                               <<"not-an-email", "password123">>,
                               <<"ann@example.com", "">>}}

DecodeRegisterRequest(raw) ==
    [Name |-> raw.name, Email |-> raw.email, Password |-> raw.password]
DecodeLoginRequest(raw) == [Email |-> raw.email, Password |-> raw.password]

(* validate:"required,min=2,max=100" / "required,email" / "required,min=8" *)
ValidRegisterRequest(b) ==
    /\ Len(b.Name) >= 2 /\ Len(b.Name) <= 100
    /\ b.Email \in WellFormedEmails
    /\ Len(b.Password) >= 8
(* validate:"required,email" / "required"                                  *)
ValidLoginRequest(b) ==
    /\ b.Email \in WellFormedEmails
    /\ b.Password # ""

(* AuthHandler.Register's answer to an error of Service.Register.          *)
(* A failure answer that passes the service's error text on.               *)
RegisterFailureVerbose(q, err) ==
    RespondWithError(q, "internal_error", err, 500)

RegisterFailure(q, err) ==
    RespondWithError(q, "internal_error", "Could not create user", 500)

Register(r) ==
    /\ Accepts(r)
    /\ \E raw \in RegisterBodies :
          LET q == [Idle EXCEPT !.route = "Register", !.trail = <<"Register">>,
                                !.input = <<raw>>]
              b == DecodeRegisterRequest(raw)
          IN  IF ~raw.ok
              THEN /\ Finish(r, RespondWithError(q, "bad_request",
                                   "Invalid request payload", 400))
                   /\ UNCHANGED users
              ELSE IF ~ValidRegisterRequest(b)
              THEN /\ Finish(r, RespondWithError(q, "validation_error",
                                   "validation failed", 400))
                   /\ UNCHANGED users
              ELSE \E salt \in Salts, hashOK \in BOOLEAN, dbOK \in BOOLEAN :
                   LET out == ServiceRegister(b.Name, b.Email, b.Password, salt,
                                              hashOK, dbOK)
                       qs == [q EXCEPT !.writes = out.writes,
                                       !.svc = [NoSvc EXCEPT
                                                   !.called = TRUE,
                                                   !.args = <<b.Name, b.Email,
                                                              b.Password>>,
                                                   !.err = out.err,
                                                   !.user = <<out.user>>]]
                   IN  /\ users' = out.users
                       /\ IF out.err # ""
                          THEN Finish(r, RegisterFailure(qs, out.err))
                          ELSE Finish(r, RespondWithJSON(qs, 201,
                                         <<"user", UserJSON(out.user)>>))
    /\ UNCHANGED <<now, cfg, products, nextPID, gen, val, gate>>

(* The answer carrying the service's error text.                           *)
LoginFailureVerbose(q, err) ==
    RespondWithError(q, "unauthorized", err, 401)

(* AuthHandler.Login's answer to an error of Service.Login.                *)
LoginFailure(q, err) ==
    RespondWithError(q, "unauthorized", "Invalid email or password", 401)

Login(r) ==
    /\ Accepts(r)
    /\ \E raw \in LoginBodies :
          LET q == [Idle EXCEPT !.route = "Login", !.trail = <<"Login">>,
                                !.input = <<raw>>]
              b == DecodeLoginRequest(raw)
          IN  IF ~raw.ok
              THEN /\ Finish(r, RespondWithError(q, "bad_request",
                                   "Invalid request payload", 400))
                   /\ UNCHANGED now
              ELSE IF ~ValidLoginRequest(b)
              THEN /\ Finish(r, RespondWithError(q, "validation_error",
                                   "validation failed", 400))
                   /\ UNCHANGED now
              ELSE \E dbOK \in BOOLEAN, clk \in ClockReads(now, 6),
                      signA \in BOOLEAN, signR \in BOOLEAN :
                   LET out == ServiceLogin(b.Email, b.Password, dbOK, clk,
                                           signA, signR)
                       qs == [q EXCEPT !.reads = 1,
                                       !.svc = [NoSvc EXCEPT
                                                   !.called = TRUE,
                                                   !.args = <<b.Email, b.Password>>,
                                                   !.err = out.err,
                                                   !.access = out.access,
                                                   !.refresh = out.refresh]]
                   IN  /\ now' = IF out.reads = 0 THEN now ELSE clk[out.reads]
                       /\ IF out.err # ""
                          THEN Finish(r, LoginFailure(qs, out.err))
                          ELSE Finish(r, RespondWithJSON(qs, 200,
                                         <<"tokens", out.access, out.refresh>>))
    /\ UNCHANGED <<cfg, users, products, nextPID, gen, val, gate>>

ListUsers(r) ==
    /\ At(r, "ListUsers")
    /\ \E dbOK \in BOOLEAN :
          LET out == ServiceList(dbOK)
              q == [req[r] EXCEPT !.trail = Append(@, "ListUsers"), !.reads = 1,
                                  !.svc = [NoSvc EXCEPT !.called = TRUE,
                                                        !.err = out.err,
                                                        !.user = <<out.users>>]]
          IN  IF out.err # ""
              THEN Finish(r, RespondWithError(q, "internal_error",
                             "Could not fetch users", 500))
              ELSE Finish(r, RespondWithJSON(q, 200,
                             <<"users", {UserJSON(u) : u \in out.users}>>))
    /\ UNCHANGED <<now, cfg, users, products, nextPID, gen, val, gate>>

----------------------------------------------------------------------------
(* The products table and its repository.                                  *)

ProductRepoCreate(product, dbOK) ==
    IF ~dbOK THEN [products |-> products, product |-> product, err |-> "db error"]
    ELSE LET row == [product EXCEPT !.ID = nextPID]
         IN  [products |-> products \cup {row}, product |-> row, err |-> ""]

ProductFindByID(id, dbOK) ==
    IF ~dbOK THEN [product |-> NoProduct, err |-> "db error"]
    ELSE IF \E p \in products : p.ID = id
    THEN [product |-> CHOOSE p \in products : p.ID = id, err |-> ""]
    ELSE [product |-> NoProduct, err |-> "record not found"]

(* db.Save: updates the row with the product's primary key, and inserts    *)
(* the product when no row has it.                                         *)
ProductRepoUpdate(product, dbOK) ==
    IF ~dbOK THEN [products |-> products, err |-> "db error"]
    ELSE [products |-> {p \in products : p.ID # product.ID} \cup {product},
          err |-> ""]

(* db.Delete: no error when no row matches.                                *)
ProductRepoDelete(id, dbOK) ==
    IF ~dbOK THEN [products |-> products, err |-> "db error"]
    ELSE [products |-> {p \in products : p.ID # id}, err |-> ""]

ProductRepoList(dbOK) ==
    IF dbOK THEN [products |-> products, err |-> ""]
    ELSE [products |-> {}, err |-> "db error"]

----------------------------------------------------------------------------
(* internal/domain/products: the service.                                  *)

(* Create that leaves the product without the owner it was given.         *)
ServiceCreateUnowned(name, description, price, stock, ownerID, dbOK) ==
    LET product == [ID |-> UUIDNil, Name |-> name, Description |-> description,
                    Price |-> price, Stock |-> stock, OwnerID |-> UUIDNil]
        created == ProductRepoCreate(product, dbOK)
    IN  IF created.err # ""
        THEN [product |-> NoProduct, err |-> created.err, products |-> products]
        ELSE [product |-> created.product, err |-> "",
              products |-> created.products]

ServiceCreate(name, description, price, stock, ownerID, dbOK) ==
    LET product == [ID |-> UUIDNil, Name |-> name, Description |-> description,
                    Price |-> price, Stock |-> stock, OwnerID |-> ownerID]
        created == ProductRepoCreate(product, dbOK)
    IN  IF created.err # ""
        THEN [product |-> NoProduct, err |-> created.err, products |-> products]
        ELSE [product |-> created.product, err |-> "",
              products |-> created.products]

ServiceFindByID(id, dbOK) == ProductFindByID(id, dbOK)

(* Service.Update up to its call of repo.Update: the row read, with the    *)
(* four fields assigned.                                                   *)
(* Update that goes on with whatever FindByID gave, error or not.          *)
ServiceUpdateReadUnchecked(id, name, description, price, stock, dbOK) ==
    LET found == ProductFindByID(id, dbOK)
    IN  [product |-> [found.product EXCEPT !.Name = name,
                                           !.Description = description,
                                           !.Price = price,
                                           !.Stock = stock],
         err |-> ""]

(* Update that builds the record anew from the four fields and the id,     *)
(* leaving the owner out.                                                  *)
ServiceUpdateReadDisowned(id, name, description, price, stock, dbOK) ==
    LET found == ProductFindByID(id, dbOK)
    IN  IF found.err # "" THEN found
        ELSE [product |-> [ID |-> id, Name |-> name, Description |-> description,
                           Price |-> price, Stock |-> stock, OwnerID |-> UUIDNil],
              err |-> ""]

ServiceUpdateRead(id, name, description, price, stock, dbOK) ==
    LET found == ProductFindByID(id, dbOK)
    IN  IF found.err # "" THEN found
        ELSE [product |-> [found.product EXCEPT !.Name = name,
                                                !.Description = description,
                                                !.Price = price,
                                                !.Stock = stock],
              err |-> ""]

ServiceDelete(id, dbOK) == ProductRepoDelete(id, dbOK)

ServiceListProducts(dbOK) == ProductRepoList(dbOK)

----------------------------------------------------------------------------
(* internal/domain/products: the HTTP handlers.                            *)

ProductBodies ==
    {[ok |-> FALSE, name |-> "", description |-> "", price |-> 0, stock |-> 0,
      owner_id |-> UUIDNil]}
        \cup [ok : {TRUE}, name : {"Pen", "Ink", "P"}, description : {"d"},
              price : {10}, stock : {5}, owner_id : {UUIDNil, 9}]

PathIDs == {UUIDString(i) : i \in 1 .. MaxProducts} \cup {<<"junk">>}

DecodeProductRequest(raw) ==
    [Name |-> raw.name, Description |-> raw.description, Price |-> raw.price,
     Stock |-> raw.stock]

(* validate:"required,min=2,max=120" / "required,gte=0" / "required,gte=0" *)
ValidProductRequest(b) ==
    /\ Len(b.Name) >= 2 /\ Len(b.Name) <= 120
    /\ b.Price # 0 /\ b.Price >= 0
    /\ b.Stock # 0 /\ b.Stock >= 0

(* The gate with its comparison of owners inverted.                        *)
OwnershipDeniedInverted(product, ownerID, userRole) ==
    product.OwnerID = ownerID /\ userRole # "admin"

(* The ownership gate of UpdateProduct and DeleteProduct.                  *)
OwnershipDenied(product, ownerID, userRole) ==
    product.OwnerID # ownerID /\ userRole # "admin"

Enter(r, name) == [req[r] EXCEPT !.trail = Append(@, name)]

CreateProduct(r) ==
    /\ At(r, "CreateProduct")
    /\ nextPID <= MaxProducts
    /\ \E raw \in ProductBodies, dbOK \in BOOLEAN :
          LET q == [Enter(r, "CreateProduct") EXCEPT !.input = <<raw>>]
              b == DecodeProductRequest(raw)
              out == ServiceCreate(b.Name, b.Description, b.Price, b.Stock,
                                   q.ctx.userID, dbOK)
          IN  IF ~raw.ok
              THEN /\ Finish(r, RespondWithError(q, "bad_request",
                                   "Invalid request payload", 400))
                   /\ UNCHANGED <<products, nextPID>>
              ELSE IF ~ValidProductRequest(b)
              THEN /\ Finish(r, RespondWithError(q, "validation_error",
                                   "validation failed", 400))
                   /\ UNCHANGED <<products, nextPID>>
              ELSE IF ~q.ctx.hasUserID
              THEN /\ Finish(r, RespondWithError(q, "unauthorized",
                                   "User ID not found in context", 401))
                   /\ UNCHANGED <<products, nextPID>>
              ELSE IF out.err # ""
              THEN /\ Finish(r, RespondWithError([q EXCEPT !.writes = 1],
                                   "internal_error", "Could not create product", 500))
                   /\ UNCHANGED <<products, nextPID>>
              ELSE /\ Finish(r, RespondWithJSON([q EXCEPT !.writes = 1], 201,
                                   <<"product", out.product>>))
                   /\ products' = out.products
                   /\ nextPID' = nextPID + 1
    /\ UNCHANGED <<now, cfg, users, gen, val, gate>>

GetProductByID(r) ==
    /\ At(r, "GetProductByID")
    /\ \E idStr \in PathIDs, dbOK \in BOOLEAN :
          LET q == Enter(r, "GetProductByID")
              id == UUIDParse(idStr)
              out == ServiceFindByID(id.id, dbOK)
          IN  IF id.err # ""
              THEN Finish(r, RespondWithError(q, "bad_request",
                             "Invalid product ID format", 400))
              ELSE IF out.err # ""
              THEN Finish(r, RespondWithError([q EXCEPT !.id = id.id, !.reads = 1],
                             "not_found", "Product not found", 404))
              ELSE Finish(r, RespondWithJSON([q EXCEPT !.id = id.id, !.reads = 1],
                             200, <<"product", out.product>>))
    /\ UNCHANGED <<now, cfg, users, products, nextPID, gen, val, gate>>

ListProducts(r) ==
    /\ At(r, "ListProducts")
    /\ \E dbOK \in BOOLEAN :
          LET q == [Enter(r, "ListProducts") EXCEPT !.reads = 1]
              out == ServiceListProducts(dbOK)
          IN  IF out.err # ""
              THEN Finish(r, RespondWithError(q, "internal_error",
                             "Could not fetch products", 500))
              ELSE Finish(r, RespondWithJSON(q, 200, <<"products", out.products>>))
    /\ UNCHANGED <<now, cfg, users, products, nextPID, gen, val, gate>>

(* UpdateProduct up to its call of Service.Update.                         *)
UpdateProduct(r) ==
    /\ At(r, "UpdateProduct")
    /\ \E idStr \in PathIDs, raw \in ProductBodies, dbOK \in BOOLEAN :
          LET q == Enter(r, "UpdateProduct")
              id == UUIDParse(idStr)
              b == DecodeProductRequest(raw)
              found == ServiceFindByID(id.id, dbOK)
              qf == [q EXCEPT !.id = id.id, !.body = b, !.reads = 1,
                              !.product = found.product,
                              !.owner = found.product.OwnerID]
          IN  IF id.err # ""
              THEN Finish(r, RespondWithError(q, "bad_request",
                             "Invalid product ID format", 400))
              ELSE IF ~raw.ok
              THEN Finish(r, RespondWithError(q, "bad_request",
                             "Invalid request payload", 400))
              ELSE IF ~ValidProductRequest(b)
              THEN Finish(r, RespondWithError(q, "validation_error",
                             "validation failed", 400))
              ELSE IF ~q.ctx.hasUserID
              THEN Finish(r, RespondWithError(q, "unauthorized",
                             "User ID not found in context", 401))
              ELSE IF ~q.ctx.hasRole
              THEN Finish(r, RespondWithError(q, "unauthorized",
                             "User role not found in context", 401))
              ELSE IF found.err # ""
              THEN Finish(r, RespondWithError([q EXCEPT !.id = id.id, !.reads = 1],
                             "not_found", "Product not found", 404))
              ELSE IF OwnershipDenied(found.product, q.ctx.userID, q.ctx.role)
              THEN Finish(r, RespondWithError(qf, "forbidden",
                             "You do not have permission to update this product",
                             403))
              ELSE Continue(r, [qf EXCEPT !.pc = "Service.Update"])
    /\ UNCHANGED <<now, cfg, users, products, nextPID, gen, val, gate>>

(* Service.Update: FindByID and the assignment of the four fields.         *)
ServiceUpdate(r) ==
    /\ At(r, "Service.Update")
    /\ \E dbOK \in BOOLEAN :
          LET b == req[r].body
              out == ServiceUpdateRead(req[r].id, b.Name, b.Description, b.Price,
                                       b.Stock, dbOK)
              q == [req[r] EXCEPT !.reads = @ + 1,
                                  !.svc = [NoSvc EXCEPT !.called = TRUE,
                                                        !.err = out.err]]
          IN  IF out.err # ""
              THEN Finish(r, RespondWithError(q, "internal_error",
                             "Could not update product", 500))
              ELSE Continue(r, [q EXCEPT !.product = out.product,
                                         !.pc = "repo.Update"])
    /\ UNCHANGED <<now, cfg, users, products, nextPID, gen, val, gate>>

(* Service.Update: repo.Update, and UpdateProduct's response.              *)
RepoUpdate(r) ==
    /\ At(r, "repo.Update")
    /\ \E dbOK \in BOOLEAN :
          LET out == ProductRepoUpdate(req[r].product, dbOK)
              q == [req[r] EXCEPT !.writes = @ + 1,
                                  !.svc = [NoSvc EXCEPT !.called = TRUE,
                                                        !.err = out.err]]
          IN  IF out.err # ""
              THEN /\ Finish(r, RespondWithError(q, "internal_error",
                                   "Could not update product", 500))
                   /\ UNCHANGED products
              ELSE /\ Finish(r, RespondWithJSON(q, 200, <<"product", q.product>>))
                   /\ products' = out.products
    /\ UNCHANGED <<now, cfg, users, nextPID, gen, val, gate>>

(* DeleteProduct up to its call of Service.Delete.                         *)
DeleteProduct(r) ==
    /\ At(r, "DeleteProduct")
    /\ \E idStr \in PathIDs, dbOK \in BOOLEAN :
          LET q == Enter(r, "DeleteProduct")
              id == UUIDParse(idStr)
              found == ServiceFindByID(id.id, dbOK)
              qf == [q EXCEPT !.id = id.id, !.reads = 1,
                              !.product = found.product,
                              !.owner = found.product.OwnerID]
          IN  IF id.err # ""
              THEN Finish(r, RespondWithError(q, "bad_request",
                             "Invalid product ID format", 400))
              ELSE IF ~q.ctx.hasUserID
              THEN Finish(r, RespondWithError(q, "unauthorized",
                             "User ID not found in context", 401))
              ELSE IF ~q.ctx.hasRole
              THEN Finish(r, RespondWithError(q, "unauthorized",
                             "User role not found in context", 401))
              ELSE IF found.err # ""
              THEN Finish(r, RespondWithError([q EXCEPT !.id = id.id, !.reads = 1],
                             "not_found", "Product not found", 404))
              ELSE IF OwnershipDenied(found.product, q.ctx.userID, q.ctx.role)
              THEN Finish(r, RespondWithError(qf, "forbidden",
                             "You do not have permission to delete this product",
                             403))
              ELSE Continue(r, [qf EXCEPT !.pc = "Service.Delete"])
    /\ UNCHANGED <<now, cfg, users, products, nextPID, gen, val, gate>>

(* Service.Delete, and DeleteProduct's response.                           *)
DeleteProductApply(r) ==
    /\ At(r, "Service.Delete")
    /\ \E dbOK \in BOOLEAN :
          LET out == ServiceDelete(req[r].id, dbOK)
              q == [req[r] EXCEPT !.writes = @ + 1,
                                  !.svc = [NoSvc EXCEPT !.called = TRUE,
                                                        !.err = out.err]]
          IN  IF out.err # ""
              THEN /\ Finish(r, RespondWithError(q, "internal_error",
                                   "Could not delete product", 500))
                   /\ UNCHANGED products
              ELSE /\ Finish(r, RespondWithJSON(q, 204, NoData))
                   /\ products' = out.products
    /\ UNCHANGED <<now, cfg, users, nextPID, gen, val, gate>>

----------------------------------------------------------------------------
(* The service: any number of clients, the store and the clock.            *)

(* Time passes.                                                            *)
Tick ==
    /\ Quiet
    /\ now < MaxTime
    /\ now' = now + 1
    /\ UNCHANGED <<cfg, users, products, nextPID, req, last, gen, val, gate>>

Configs == {[JWTSecret |-> "s1", AccessTokenTTL |-> "1s", RefreshTokenTTL |-> "2s"]}

Init ==
    /\ now = 0
    /\ cfg \in Configs
    /\ users = {AdminSeed}
    /\ products = {}
    /\ nextPID = 1
    /\ req = [r \in Requests |-> Idle]
    /\ last = Idle
    /\ gen = NoGen
    /\ val = NoVal
    /\ gate = NoGate

(* One request at a time.                                                  *)
Next ==
    \/ Tick
    \/ Close
    \/ \E r \in {1} : Register(r)
    \/ \E r \in {1} : Login(r)
    \/ \E r \in {1} : AuthMiddleware(r)
    \/ \E r \in {1} : HasRoleMiddleware(r)
    \/ \E r \in {1} : ListUsers(r)
    \/ \E r \in {1} : ListProducts(r)
    \/ \E r \in {1} : CreateProduct(r)
    \/ \E r \in {1} : GetProductByID(r)
    \/ \E r \in {1} : UpdateProduct(r)
    \/ \E r \in {1} : ServiceUpdate(r)
    \/ \E r \in {1} : RepoUpdate(r)
    \/ \E r \in {1} : DeleteProduct(r)
    \/ \E r \in {1} : DeleteProductApply(r)

Spec == Init /\ [][Next]_vars

(* Two requests at a time, over a store of an administrator and a user,    *)
(* with the clock and the users table left alone.                          *)
Ann == [ID |-> 2, Name |-> "Ann", Email |-> "ann@example.com",
        PasswordHash |-> <<"$2a$", "salt1", "password123">>, Role |-> "user"]

InitConc ==
    /\ now = 0
    /\ cfg \in Configs
    /\ users = {AdminSeed, Ann}
    /\ products = {}
    /\ nextPID = 1
    /\ req = [r \in Requests |-> Idle]
    /\ last = Idle
    /\ gen = NoGen
    /\ val = NoVal
    /\ gate = NoGate

NextConc ==
    \/ Close
    \/ \E r \in Requests : AuthMiddleware(r)
    \/ \E r \in Requests : HasRoleMiddleware(r)
    \/ \E r \in Requests : ListUsers(r)
    \/ \E r \in Requests : ListProducts(r)
    \/ \E r \in Requests : CreateProduct(r)
    \/ \E r \in Requests : GetProductByID(r)
    \/ \E r \in Requests : UpdateProduct(r)
    \/ \E r \in Requests : ServiceUpdate(r)
    \/ \E r \in Requests : RepoUpdate(r)
    \/ \E r \in Requests : DeleteProduct(r)
    \/ \E r \in Requests : DeleteProductApply(r)

SpecConc == InitConc /\ [][NextConc]_vars

(* The row of a user who registered as "Ann@Example.com".                  *)
AnnCaps == [Ann EXCEPT !.Email = "Ann@Example.com"]

(* Registration and login alone, under every TTL configuration and from   *)
(* a store without an administrator, with one, and with one and a user     *)
(* whose email was registered with capital letters.                        *)
InitUsers ==
    /\ now = 0
    /\ cfg \in [JWTSecret : Secrets, AccessTokenTTL : TTLStrings,
                 RefreshTokenTTL : TTLStrings]
    /\ users \in {{}, {AdminSeed}, {AdminSeed, AnnCaps}}
    /\ products = {}
    /\ nextPID = 1
    /\ req = [r \in Requests |-> Idle]
    /\ last = Idle
    /\ gen = NoGen
    /\ val = NoVal
    /\ gate = NoGate

NextUsers ==
    \/ Tick
    \/ Close
    \/ \E r \in Requests : Register(r)
    \/ \E r \in Requests : Login(r)

SpecUsers == InitUsers /\ [][NextUsers]_vars

(* The service over a store without an administrator: nobody, or the user *)
(* Bob. One request at a time; the users route is there, its handler is    *)
(* not, since no request gets to it.                                       *)
Bob == [ID |-> 1, Name |-> "Bob", Email |-> "bob@example.com",
        PasswordHash |-> <<"$2a$", "salt1", "password123">>, Role |-> "user"]

InitNoAdmin ==
    /\ now = 0
    /\ cfg \in Configs
    /\ users \in {{}, {Bob}}
    /\ products = {}
    /\ nextPID = 1
    /\ req = [r \in Requests |-> Idle]
    /\ last = Idle
    /\ gen = NoGen
    /\ val = NoVal
    /\ gate = NoGate

NextNoAdmin ==
    \/ Tick
    \/ Close
    \/ \E r \in {1} : Register(r)
    \/ \E r \in {1} : Login(r)
    \/ \E r \in {1} : AuthMiddleware(r)
    \/ \E r \in {1} : HasRoleMiddleware(r)
    \/ \E r \in {1} : ListProducts(r)
    \/ \E r \in {1} : CreateProduct(r)
    \/ \E r \in {1} : GetProductByID(r)
    \/ \E r \in {1} : UpdateProduct(r)
    \/ \E r \in {1} : ServiceUpdate(r)
    \/ \E r \in {1} : RepoUpdate(r)
    \/ \E r \in {1} : DeleteProduct(r)
    \/ \E r \in {1} : DeleteProductApply(r)

SpecNoAdmin == InitNoAdmin /\ [][NextNoAdmin]_vars

(* The token harness.                                                      *)
InitJwt ==
    /\ now = 0
    /\ cfg = [JWTSecret |-> "s1", AccessTokenTTL |-> "1s", RefreshTokenTTL |-> "2s"]
    /\ users = {}
    /\ products = {}
    /\ nextPID = 1
    /\ req = [r \in Requests |-> Idle]
    /\ last = Idle
    /\ gen \in {[NoGen EXCEPT !.userID = u, !.role = ro, !.secret = s,
                              !.accessTTL = a, !.refreshTTL = b] :
                   u \in Subjects, ro \in Roles, s \in Secrets,
                   a \in TTLs, b \in TTLs}
    /\ val = NoVal
    /\ gate = NoGate

(* HasRoleMiddleware alone: every set of permitted roles (the empty one   *)
(* and one naming the empty role among them) on a context without an       *)
(* identity, with a subject only, and with a subject and a role.           *)
GateRoles == {"", "user", "admin"}
GateContexts ==
    [hasUserID : {FALSE}, userID : {UUIDNil}, hasRole : {FALSE}, role : {""}]
        \cup [hasUserID : {TRUE}, userID : Subjects, hasRole : {FALSE}, role : {""}]
        \cup [hasUserID : {TRUE}, userID : Subjects, hasRole : {TRUE},
              role : GateRoles]

InitGate ==
    /\ now = 0
    /\ cfg \in Configs
    /\ users = {}
    /\ products = {}
    /\ nextPID = 1
    /\ req = [r \in Requests |-> Idle]
    /\ last = Idle
    /\ gen = NoGen
    /\ val = NoVal
    /\ gate \in {[NoGate EXCEPT !.ctx = c, !.requiredRoles = rs] :
                    c \in GateContexts, rs \in SUBSET GateRoles}

GateRun ==
    /\ ~gate.called
    /\ LET out == HasRole(gate.ctx, gate.requiredRoles)
       IN  gate' = [gate EXCEPT !.called = TRUE, !.next = out.next,
                                !.status = out.status, !.code = out.code,
                                !.msg = out.msg]
    /\ UNCHANGED <<now, cfg, users, products, nextPID, req, last, gen, val>>

NextGate == GateRun

SpecGate == InitGate /\ [][NextGate]_vars

NextJwt == JwtGenerate \/ JwtValidate \/ Tick

SpecJwt == InitJwt /\ [][NextJwt]_vars

----------------------------------------------------------------------------
(* Properties. Each is about the requests on record: the ones in flight    *)
(* and the one just answered.                                              *)

OnRecord == {req[r] : r \in Requests} \cup {last}

ProtectedHandlers == {"ListUsers", "ListProducts", "CreateProduct",
                      "GetProductByID", "UpdateProduct", "DeleteProduct"}

Answered(q) == q.pc = "done"
InFlight(q) == q.pc \notin {"idle", "done"}
Ran(q, stage) == \E i \in 1 .. Len(q.trail) : q.trail[i] = stage

(* The request was judged by the ownership gate, and the gate's rule.      *)
AtGate(q) == q.route \in {"UpdateProduct", "DeleteProduct"} /\ q.owner # UUIDNil
MayMutate(q) == q.owner = q.ctx.userID \/ q.ctx.role = "admin"

(* C1: an UpdateProduct or DeleteProduct request with a valid token goes   *)
(* on to the store's Update or Delete only if its bound subject is the     *)
(* product's owner or its bound role is "admin"; otherwise it is answered  *)
(* 403 "forbidden" without a write, and the step that answers it leaves    *)
(* the products table as it was. A request the gate lets through (an       *)
(* admin's on another's product among them) is never answered 403: it is   *)
(* answered 200 (update) or 204 (delete) unless a store call of its own    *)
(* fails, and then 500. The products table changes only in a step of a     *)
(* CreateProduct or of a request the gate let through.                     *)
C1_GateState ==
    \A q \in OnRecord :
        AtGate(q) =>
            /\ q.verified
            /\ q.ctx.userID = q.tok.user_id /\ q.ctx.role = q.tok.role
            /\ (InFlight(q) \/ q.writes > 0) => MayMutate(q)
            /\ ~MayMutate(q) =>
                  /\ Answered(q) /\ q.status = 403 /\ q.code = "forbidden"
                  /\ q.writes = 0 /\ ~q.svc.called
            /\ (MayMutate(q) /\ Answered(q)) =>
                  /\ q.status \in {200, 204, 500}
                  /\ q.status = 500 <=> q.svc.err # ""
                  /\ q.status = 200 <=> (q.route = "UpdateProduct" /\ q.svc.err = ""
                                          /\ q.writes = 1)
                  /\ q.status = 204 <=> (q.route = "DeleteProduct" /\ q.svc.err = ""
                                          /\ q.writes = 1)

C1_GateStep ==
    /\ (last'.status = 403 /\ last.pc = "idle") => products' = products
    /\ products' # products =>
          /\ Answered(last') /\ last.pc = "idle"
          /\ last'.route = "CreateProduct" \/ (AtGate(last') /\ MayMutate(last'))

C1_OwnershipGate == [](C1_GateState) /\ [][C1_GateStep]_vars

(* A user's request on another subject's product has been answered 403.   *)
C1_Witness ==
    /\ AtGate(last) /\ last.status = 403
    /\ last.ctx.role = "user" /\ last.owner # last.ctx.userID
    /\ \E p \in products : p.ID = last.id /\ p.OwnerID = last.owner

(* C2: every request that got past AuthMiddleware on a protected route --  *)
(* in flight to, or answered by, ListUsers, ListProducts, CreateProduct,   *)
(* GetProductByID, UpdateProduct or DeleteProduct -- carried a header      *)
(* "Bearer <token>" whose token verifies under the configured secret; a    *)
(* request without a header, with a malformed header or with a token that  *)
(* does not verify is answered 401 "unauthorized" by AuthMiddleware alone, *)
(* with no handler run, no store call made and both tables unchanged.      *)
C2_AuthState ==
    \A q \in OnRecord :
        q.route \in ProtectedHandlers =>
            /\ q.trail[1] = "AuthMiddleware"
            /\ (InFlight(q) \/ Len(q.trail) > 1) =>
                  /\ q.verified
                  /\ q.ctx = [hasUserID |-> TRUE, userID |-> q.tok.user_id,
                              hasRole |-> TRUE, role |-> q.tok.role]
            /\ (\E h \in ProtectedHandlers : Ran(q, h)) => q.verified
            /\ ~q.verified =>
                  /\ Answered(q) /\ q.status = 401 /\ q.code = "unauthorized"
                  /\ q.trail = <<"AuthMiddleware">>
                  /\ q.reads = 0 /\ q.writes = 0 /\ ~q.svc.called
                  /\ q.ctx = NoCtx

C2_AuthStep ==
    (last.pc = "idle" /\ last'.route \in ProtectedHandlers /\ ~last'.verified)
        => (users' = users /\ products' = products)

C2_NoHandlerWithoutVerifiedToken == [](C2_AuthState) /\ [][C2_AuthStep]_vars

(* A request with a well-formed header and an admin token signed with      *)
(* another secret has been answered 401.                                   *)
C2_Witness ==
    /\ last.route \in ProtectedHandlers /\ last.status = 401
    /\ last.shape = <<Word("Bearer"), Sep(" "), Tok(<<>>)>>
    /\ last.tok.role = "admin" /\ ~last.verified

(* C3: ListUsers runs only for a request whose verified token has role     *)
(* "admin". A request to list users with a verified token of any other     *)
(* role is answered 403 "forbidden" by HasRoleMiddleware, ListUsers not    *)
(* run and the store not read; one with a verified "admin" token reaches   *)
(* ListUsers and is answered 200, or 500 when the store's List fails.      *)
C3_ListUsersAdminOnly ==
    \A q \in OnRecord :
        q.route = "ListUsers" =>
            /\ (q.pc = "ListUsers" \/ Ran(q, "ListUsers")) =>
                  q.verified /\ q.tok.role = "admin"
            /\ (Answered(q) /\ q.verified /\ q.tok.role # "admin") =>
                  /\ q.status = 403 /\ q.code = "forbidden"
                  /\ q.trail = <<"AuthMiddleware", "HasRoleMiddleware">>
                  /\ q.reads = 0 /\ ~q.svc.called
            /\ (Answered(q) /\ q.verified /\ q.tok.role = "admin") =>
                  /\ q.trail = <<"AuthMiddleware", "HasRoleMiddleware", "ListUsers">>
                  /\ q.status \in {200, 500}
                  /\ q.status = 200 <=> q.svc.err = ""
                  /\ q.status = 200 =>
                        q.data = <<"users", {UserJSON(u) : u \in users}>>

(* A registered user's valid token has been turned away from the list.     *)
C3_Witness ==
    /\ last.route = "ListUsers" /\ last.verified /\ last.tok.role = "user"
    /\ last.status = 403
    /\ \E u \in users : u.ID = last.tok.user_id /\ u.Role = "user"

(* The harness has issued a pair of tokens; the ones validated.            *)
Issued == gen.called /\ gen.err = ""
ValidatedOwn == Issued /\ val.called /\ val.token \in {gen.access, gen.refresh}

(* C4: GenerateTokens(subject, role, secret, ...) followed by              *)
(* ValidateToken with the same secret, on either of its tokens, at a time  *)
(* before that token's exp claim (which takes a positive ttl), gives no    *)
(* error and claims whose user_id is subject and whose role is role.       *)
C4_RoundTrip ==
    (ValidatedOwn /\ val.secret = gen.secret /\ val.at < val.token[2].exp) =>
        /\ val.err = ""
        /\ val.claims.user_id = gen.userID
        /\ val.claims.role = gen.role
        /\ val.claims = val.token[2]

(* The refresh token has been validated some time after it was issued and  *)
(* before its expiry, under every subject, role and secret.                *)
C4_Witness ==
    /\ ValidatedOwn /\ val.token = gen.refresh /\ val.token # gen.access
    /\ val.secret = gen.secret /\ gen.refreshTTL > 0
    /\ val.at > 0 /\ val.at < val.token[2].exp
    /\ val.claims.user_id = gen.userID /\ val.claims.role = gen.role

(* C5: ValidateToken on a token issued with secret S, called with a secret *)
(* other than S, returns an error and no claims, whatever the time.        *)
C5_WrongSecretFails ==
    (ValidatedOwn /\ val.secret # gen.secret) =>
        /\ val.err # ""
        /\ val.claims = NoClaims

(* An unexpired token has been refused for its signature alone.            *)
C5_Witness ==
    /\ ValidatedOwn /\ val.secret # gen.secret
    /\ val.at < val.token[2].exp
    /\ val.err = "failed to parse token: token signature is invalid"

(* C6: at every time after the exp claim of a token issued to a user of    *)
(* the store, ValidateToken with the configured secret returns an error    *)
(* and no claims; and a request presenting a token after its exp is        *)
(* answered 401 by AuthMiddleware, no handler run and no store call made.  *)
C6_ExpiredTokenFails ==
    /\ \A tok \in IssuableTokens :
          now > tok[2].exp =>
              /\ ValidateToken(tok, cfg.JWTSecret, now).err # ""
              /\ ValidateToken(tok, cfg.JWTSecret, now).claims = NoClaims
    /\ \A q \in OnRecord :
          q.late =>
              /\ ~q.verified
              /\ Answered(q) /\ q.status = 401 /\ q.code = "unauthorized"
              /\ q.trail = <<"AuthMiddleware">>
              /\ q.reads = 0 /\ q.writes = 0 /\ ~q.svc.called

(* A user's own token, presented in a well-formed header after its expiry, *)
(* has been refused.                                                       *)
C6_Witness ==
    /\ last.late /\ last.status = 401
    /\ last.shape = <<Word("Bearer"), Sep(" "), Tok(<<>>)>>
    /\ \E u \in users : u.ID = last.tok.user_id /\ u.Role = last.tok.role
    /\ \E tok \in IssuableTokens : now > tok[2].exp

(* The Login and the Register on record, and what the store holds for the  *)
(* email they were called with.                                            *)
LoginCalled == last.route = "Login" /\ last.svc.called
RegisterCalled == last.route = "Register" /\ last.svc.called
Known(email) == \E u \in users : u.Email = email
StoreFailed == last.svc.err = "db error"
SteadyClock == [i \in 1 .. 6 |-> now]

(* C7, as claimed: when a Login has failed for an email the store does     *)
(* not hold, the error Service.Login returned is the error it returns for  *)
(* any email the store holds given with a password that does not verify.   *)
C7_SameErrorFromService ==
    (LoginCalled /\ ~Known(last.svc.args[1]) /\ ~StoreFailed) =>
        \A u \in users :
            ~CheckPasswordHash("wrongpass", u.PasswordHash) =>
                last.svc.err = ServiceLogin(u.Email, "wrongpass", TRUE,
                                            SteadyClock, TRUE, TRUE).err

(* C7, amended: whatever error Service.Login returns, AuthHandler.Login    *)
(* answers 401 "unauthorized" with the message "Invalid email or password" *)
(* and no data, the same for an unknown email as for a wrong password;     *)
(* the error of Service.Login itself is the store's "record not found" in  *)
(* the first case and "invalid email or password" in the second.           *)
C7_SameAnswerFromHandler ==
    LoginCalled =>
        /\ last.svc.err # "" =>
              /\ last.status = 401 /\ last.code = "unauthorized"
              /\ last.msg = "Invalid email or password"
              /\ last.data = NoData
        /\ (~Known(last.svc.args[1]) /\ ~StoreFailed) =>
              last.svc.err = "record not found"
        /\ (\E u \in users : /\ u.Email = last.svc.args[1]
                              /\ ~CheckPasswordHash(last.svc.args[2], u.PasswordHash))
              /\ ~StoreFailed
           => last.svc.err = "invalid email or password"

(* A login for an unknown email has been refused while the store holds     *)
(* another email.                                                          *)
C7_Witness ==
    /\ LoginCalled /\ ~Known(last.svc.args[1])
    /\ last.svc.err = "record not found" /\ last.status = 401
    /\ users # {}

(* C8: a successful Service.Register returns, and has stored, a user with  *)
(* role "user" and the name and email it was called with, whatever the     *)
(* request body said (a "role" field included); every row Register adds to *)
(* the users table has role "user", so the only admin is the seeded one.   *)
C8_RegisterState ==
    /\ (RegisterCalled /\ last.svc.err = "") =>
          LET u == last.svc.user[1]
          IN  /\ u.Role = "user"
              /\ u.Name = last.svc.args[1] /\ u.Name = last.input[1].name
              /\ u.Email = last.svc.args[2] /\ u.Email = last.input[1].email
              /\ u.ID # UUIDNil
              /\ u \in users
              /\ last.status = 201 /\ last.data = <<"user", UserJSON(u)>>
    /\ \A u \in users : u.Role = "admin" => u = AdminSeed

C8_RegisterStep ==
    \A u \in users' \ users :
        /\ u.Role = "user"
        /\ last'.route = "Register" /\ last'.svc.user = <<u>>

C8_RegisterRoleUser == [](C8_RegisterState) /\ [][C8_RegisterStep]_vars

(* A registration asking for role "admin" has created a user.              *)
C8_Witness ==
    /\ RegisterCalled /\ last.status = 201
    /\ last.input[1].role = "admin"
    /\ last.svc.user[1].Role = "user" /\ last.svc.user[1] \in users

(* C9, as claimed: a Register the store refuses for its email being taken  *)
(* is answered 409 or 400, not as an internal error, and the store holds   *)
(* one user with that email.                                               *)
C9_DuplicateEmailSurfaced ==
    (RegisterCalled
       /\ last.svc.err = "duplicate key value violates unique constraint") =>
        /\ last.status \in {400, 409}
        /\ last.code # "internal_error"
        /\ Cardinality({u \in users : u.Email = last.svc.args[2]}) = 1

(* The TTLs as Service.Login parses them, and when they keep the two       *)
(* tokens' exp claims apart whatever the clock reads.                      *)
AccessTTL == ParseDuration(cfg.AccessTokenTTL).d
RefreshTTL == ParseDuration(cfg.RefreshTokenTTL).d
TTLsApart ==
    \/ RefreshTTL - AccessTTL >= TicksPerSecond
    \/ AccessTTL - RefreshTTL >= TicksPerSecond + MaxStep

(* C10, as claimed: a successful Service.Login returns two non-empty token *)
(* strings that differ, under every TTL configuration; a failed one        *)
(* returns an error and two empty strings.                                 *)
C10_DistinctTokensAlways ==
    LoginCalled =>
        /\ last.svc.err = "" =>
              /\ last.svc.access # <<>> /\ last.svc.refresh # <<>>
              /\ last.svc.access # last.svc.refresh
        /\ last.svc.err # "" =>
              last.svc.access = <<>> /\ last.svc.refresh = <<>>

(* C10, amended: a successful Service.Login returns two non-empty token    *)
(* strings; they differ whenever the refresh TTL is at least a second      *)
(* longer than the access TTL, or the access TTL is longer than the        *)
(* refresh TTL by at least a second and the time the call takes, and they  *)
(* are one string exactly when their exp, iat and nbf seconds coincide. A  *)
(* failed Login returns an error and two empty strings.                    *)
C10_LoginTokens ==
    LoginCalled =>
        /\ last.svc.err = "" =>
              /\ last.svc.access # <<>> /\ last.svc.refresh # <<>>
              /\ last.status = 200
              /\ last.data = <<"tokens", last.svc.access, last.svc.refresh>>
              /\ TTLsApart => last.svc.access # last.svc.refresh
              /\ last.svc.access = last.svc.refresh <=>
                    /\ last.svc.access[2].exp = last.svc.refresh[2].exp
                    /\ last.svc.access[2].iat = last.svc.refresh[2].iat
                    /\ last.svc.access[2].nbf = last.svc.refresh[2].nbf
        /\ last.svc.err # "" =>
              /\ last.svc.access = <<>> /\ last.svc.refresh = <<>>
              /\ last.status = 401

(* A login under the refresh TTL "7d" has returned two different tokens.   *)
C10_Witness ==
    /\ LoginCalled /\ last.svc.err = ""
    /\ cfg.RefreshTokenTTL = "7d" /\ TTLsApart
    /\ last.svc.access # last.svc.refresh
    /\ last.svc.refresh[2].exp <= last.svc.refresh[2].iat

(* What a TTL setting stands for: its duration when time.ParseDuration     *)
(* accepts it, seven days for "7d", and the documented default when absent.*)
FifteenMinutes == 15 * 60 * TicksPerSecond
SevenDays == 7 * 24 * 60 * 60 * TicksPerSecond
IntendedTTL(setting, default) ==
    IF ParseDuration(setting).err = "" THEN ParseDuration(setting).d
    ELSE IF setting = "7d" THEN SevenDays
    ELSE default
IntendedAccessTTL == IntendedTTL(cfg.AccessTokenTTL, FifteenMinutes)
IntendedRefreshTTL == IntendedTTL(cfg.RefreshTokenTTL, SevenDays)
Lifetime(tok) == tok[2].exp - tok[2].iat
Near(a, b) == a - b <= TicksPerSecond + MaxStep /\ b - a <= TicksPerSecond + MaxStep

(* C11, as claimed: after a successful login under TTL settings that stand *)
(* for two seconds or more (a "7d" and an absent setting among them), each *)
(* token's exp minus iat is the TTL its setting stands for, to the second  *)
(* and the time the call takes; both tokens verify at once; and the        *)
(* refresh token does not expire before the access token.                  *)
C11_TokenLifetimes ==
    (LoginCalled /\ last.svc.err = ""
       /\ IntendedAccessTTL >= 2 * TicksPerSecond
       /\ IntendedRefreshTTL >= IntendedAccessTTL) =>
        /\ Near(Lifetime(last.svc.access), IntendedAccessTTL)
        /\ Near(Lifetime(last.svc.refresh), IntendedRefreshTTL)
        /\ ValidateToken(last.svc.access, cfg.JWTSecret, now).err = ""
        /\ ValidateToken(last.svc.refresh, cfg.JWTSecret, now).err = ""
        /\ last.svc.refresh[2].exp >= last.svc.access[2].exp

(* The fields a value shows, and whether one of them is a password hash.   *)
PublicFields == {"id", "name", "email", "role"}
CarriesHash(v) == "PasswordHash" \in DOMAIN v /\ v.PasswordHash # <<>>

(* C12, as claimed: no user that Service.Register or Service.List returns  *)
(* to its caller carries a password hash.                                  *)
C12_NoHashUpward ==
    /\ (RegisterCalled /\ last.svc.err = "") => ~CarriesHash(last.svc.user[1])
    /\ (last.route = "ListUsers" /\ last.svc.called /\ last.svc.err = "") =>
          \A u \in last.svc.user[1] : ~CarriesHash(u)

(* C12, amended: the responses of Register (201) and ListUsers (200) show  *)
(* of each user the id, name, email and role (timestamps are left out of   *)
(* the model) but no password hash and not the password, for every user of *)
(* the store, and                                                          *)
(* their error responses carry no data; the User values Service.Register   *)
(* and Service.List return to the handlers do carry the stored hash.       *)
C12_NoHashInResponses ==
    /\ RegisterCalled =>
          IF last.svc.err = ""
          THEN /\ last.status = 201
               /\ DOMAIN last.data[2] = PublicFields
               /\ \A f \in {"name", "email", "role"} :
                     last.data[2][f] # last.svc.args[3]
               /\ CarriesHash(last.svc.user[1])
               /\ CheckPasswordHash(last.svc.args[3],
                                    last.svc.user[1].PasswordHash)
          ELSE last.data = NoData
    /\ (last.route = "ListUsers" /\ last.svc.called) =>
          IF last.svc.err = ""
          THEN /\ last.status = 200
               /\ \A j \in last.data[2] : DOMAIN j = PublicFields
               /\ {j.id : j \in last.data[2]} = {u.ID : u \in users}
               /\ last.svc.user[1] = users
               /\ \A u \in last.svc.user[1] : CarriesHash(u)
          ELSE last.data = NoData

(* An admin has been sent the list of a store holding a registered user.   *)
C12_Witness ==
    /\ last.route = "ListUsers" /\ last.status = 200
    /\ \E u \in users : u.Role = "user" /\ CarriesHash(u)
    /\ \E j \in last.data[2] : j.role = "user"

(* The email with its letters in lower case.                               *)
FoldCase(email) ==
    CASE email = "Ann@Example.com" -> "ann@example.com"
      [] OTHER -> email

SameButCase(a, b) == a # b /\ FoldCase(a) = FoldCase(b)

(* C13, as claimed: a login with the right password and an email that      *)
(* differs from a registered one only in letter case is not refused as     *)
(* unknown or wrong, and no two rows of the store differ in their emails   *)
(* only by letter case.                                                    *)
C13_CaseInsensitiveEmail ==
    /\ \A u \in users :
          (/\ LoginCalled /\ ~StoreFailed
           /\ SameButCase(last.svc.args[1], u.Email)
           /\ CheckPasswordHash(last.svc.args[2], u.PasswordHash)) =>
              last.svc.err \notin {"record not found", "invalid email or password"}
    /\ \A u, v \in users : ~SameButCase(u.Email, v.Email)

(* The request that created a product: answered 201 by CreateProduct.      *)
Created(q) == q.route = "CreateProduct" /\ Answered(q) /\ q.status = 201

(* C14: every product that CreateProduct creates is owned by the subject   *)
(* of the token that authenticated the request (the token's user_id claim, *)
(* which names the same user as its sub), whatever owner_id the request    *)
(* body carries; the product returned and the row added to the store both  *)
(* have that owner, and a step of CreateProduct adds no other row.         *)
C14_OwnerState ==
    Created(last) =>
        /\ last.verified
        /\ UUIDString(last.tok.user_id) = last.tok.sub
        /\ last.data[2].OwnerID = last.tok.user_id
        /\ last.data[2].OwnerID = UUIDParse(last.tok.sub).id
        /\ last.data[2].Name = last.input[1].name

C14_OwnerStep ==
    \A r \in Requests :
      /\ (req[r].pc = "CreateProduct" /\ req'[r] # req[r]) =>
            /\ req'[r] = Idle /\ Answered(last')
            /\ last'.route = "CreateProduct"
            /\ Created(last') <=> products' # products
            /\ ~Created(last') => last'.data = NoData
      /\ (req[r].pc = "CreateProduct" /\ req'[r] # req[r]
            /\ products' # products) =>
            /\ products' = products \cup {last'.data[2]}
            /\ last'.data[2] \notin products
            /\ last'.data[2].OwnerID = req[r].ctx.userID

C14_OwnerIsTokenSubject == [](C14_OwnerState) /\ [][C14_OwnerStep]_vars

(* A user created a product with a body naming another user as its owner.  *)
C14_Witness ==
    /\ Created(last)
    /\ last.tok.role = "user"
    /\ last.input[1].owner_id = AdminSeed.ID
    /\ last.input[1].owner_id # last.tok.user_id
    /\ last.data[2] \in products

(* C15, as claimed: a request with a verified "user" token is never       *)
(* answered with a product (GetProductByID) and never updates or deletes   *)
(* a product whose owner is not the token's subject.                       *)
C15_UserOwnProductsOnly ==
    \A q \in OnRecord :
        (Answered(q) /\ q.verified /\ q.tok.role = "user") =>
            /\ (q.route = "GetProductByID" /\ q.status = 200) =>
                  q.data[2].OwnerID = q.tok.user_id
            /\ (q.route \in {"UpdateProduct", "DeleteProduct"}
                  /\ q.status \in {200, 204}) =>
                  q.owner = q.tok.user_id

(* The errors of Service.Login that mean the credentials are invalid.      *)
InvalidCredentials == {"record not found", "invalid email or password"}

(* C16, as claimed: a login is answered 401 exactly when the email is      *)
(* unknown or the password wrong, and 500 when the store or the signing    *)
(* of a token fails.                                                       *)
C16_LoginStatus ==
    LoginCalled =>
        /\ last.status = 401 <=> last.svc.err \in InvalidCredentials
        /\ (last.svc.err # "" /\ last.svc.err \notin InvalidCredentials) =>
              last.status = 500

(* C17, as claimed: ValidateToken returns an error for every token whose   *)
(* header declares an algorithm other than HS256, the one generateToken    *)
(* signs with, also when the signature is valid for the secret under the   *)
(* declared algorithm.                                                     *)
C17_OnlyHS256 ==
    (val.called /\ Len(val.token) = 3 /\ val.token[1].alg # "HS256") =>
        /\ val.err # ""
        /\ val.claims = NoClaims

(* The request was refused on the register, login or list-users path or   *)
(* by one of the two middlewares.                                          *)
Refused(q) ==
    /\ Answered(q) /\ q.status >= 400
    /\ \/ q.route \in {"Register", "Login", "ListUsers"}
       \/ q.trail[Len(q.trail)] \in {"AuthMiddleware", "HasRoleMiddleware"}

(* The error texts the store and the token library produce in this state.  *)
StoreErrors ==
    {FindByEmail(e, ok).err : e \in WellFormedEmails, ok \in BOOLEAN}
        \cup {UserRepoCreate(u, ok).err : u \in users, ok \in BOOLEAN}
        \cup {UserRepoList(FALSE).err}
TokenErrors ==
    UNION {{ValidateToken(t, cfg.JWTSecret, now).err,
            ParseWithClaims(t, cfg.JWTSecret, now)} :
              t \in IssuableTokens \cup OutsiderTokens}
        \cup {generateToken(9, "admin", cfg.JWTSecret, 0, <<0, 0, 0>>, FALSE).err}

(* The messages the handlers and middlewares write themselves.             *)
ClientMessages ==
    {"Invalid request payload", "validation failed", "Could not create user",
     "Invalid email or password", "Could not fetch users",
     "Authorization header required", "Invalid authorization header format",
     "Invalid or expired token", "Role not found in context",
     "Insufficient permissions"}

(* C18: an error response of Register, Login, ListUsers, AuthMiddleware or *)
(* HasRoleMiddleware carries no data, and its message is one of the fixed  *)
(* texts of the handlers and middlewares: it is not the signing secret,    *)
(* not the salt or password of a stored hash, not the error its service    *)
(* call returned, and not an error text of the store or token library.     *)
C18_NoLeakInErrors ==
    Refused(last) =>
        /\ last.data = NoData
        /\ last.msg \in ClientMessages
        /\ last.msg \notin Secrets
        /\ \A u \in users :
              last.msg \notin {u.PasswordHash[2], u.PasswordHash[3]}
        /\ last.msg # last.svc.err
        /\ last.msg \notin (StoreErrors \cup TokenErrors) \ {""}

(* A registration the unique index refused has been answered.              *)
C18_Witness ==
    /\ Refused(last) /\ RegisterCalled
    /\ last.svc.err = "duplicate key value violates unique constraint"
    /\ last.svc.err \in StoreErrors
    /\ last.status = 500 /\ last.msg = "Could not create user"

(* The request is inside Service.Update, before and after its FindByID.    *)
InUpdate(q) == q.pc = "Service.Update"
InRepoUpdate(q) == q.pc = "repo.Update"
Missing(id) == ~\E p \in products : p.ID = id

(* C19: Service.Update on an id that FindByID does not find (no row, or    *)
(* the query fails) returns FindByID's error and no product, and the       *)
(* request ends there: repo.Update is not called, nothing is written and   *)
(* the products table stays as it was; when repo.Update fails, the table   *)
(* stays as it was and Update returns that error and no product. Either    *)
(* way the handler answers 500 without data.                               *)
C19_UpdateState ==
    \A q \in OnRecord :
        /\ InUpdate(q) =>
              \A ok \in BOOLEAN :
                  LET out == ServiceUpdateRead(q.id, q.body.Name, q.body.Description,
                                               q.body.Price, q.body.Stock, ok)
                  IN  /\ out.err = ProductFindByID(q.id, ok).err
                      /\ (Missing(q.id) \/ ~ok) <=> out.err # ""
                      /\ out.err # "" => out.product = NoProduct
        /\ (Answered(q) /\ q.route = "UpdateProduct" /\ q.svc.called
              /\ q.svc.err # "") =>
              /\ q.status = 500 /\ q.data = NoData
              /\ q.svc.err \in {"record not found", "db error"}

C19_UpdateStep ==
    \A r \in Requests :
        /\ (InUpdate(req[r]) /\ req'[r] # req[r] /\ Missing(req[r].id)) =>
              /\ req'[r] = Idle /\ Answered(last')
              /\ last'.route = "UpdateProduct" /\ last'.id = req[r].id
              /\ last'.svc.err = "record not found" \/ last'.svc.err = "db error"
              /\ last'.writes = 0
              /\ products' = products
        /\ (InUpdate(req[r]) /\ InRepoUpdate(req'[r])) =>
              /\ ~Missing(req[r].id) /\ req'[r].svc.err = ""
              /\ req'[r].product.ID = req[r].id
        /\ (InRepoUpdate(req[r]) /\ req'[r] # req[r]) =>
              /\ req'[r] = Idle /\ Answered(last')
              /\ last'.route = "UpdateProduct" /\ last'.id = req[r].id
              /\ IF last'.svc.err # ""
                 THEN /\ last'.svc.err = ProductRepoUpdate(req[r].product, FALSE).err
                      /\ last'.status = 500 /\ last'.data = NoData
                      /\ products' = products
                 ELSE /\ last'.status = 200 /\ last'.data[2] = req[r].product
                      /\ last'.data[2] \in products'

C19_UpdateErrors == [](C19_UpdateState) /\ [][C19_UpdateStep]_vars

(* An update let through the gate found its product deleted meanwhile.     *)
C19_Witness ==
    /\ last.route = "UpdateProduct" /\ Answered(last)
    /\ last.svc.called /\ last.svc.err = "record not found"
    /\ last.reads = 2 /\ last.writes = 0
    /\ Missing(last.id)

(* What the record of a request tells of AuthMiddleware's run: whether it  *)
(* ran, and whether it called ValidateToken (it let the request through or *)
(* answered with the message of a token that does not validate).           *)
Screened(q) == Len(q.trail) >= 1 /\ q.trail[1] = "AuthMiddleware"
CalledValidateToken(q) ==
    InFlight(q) \/ Len(q.trail) > 1 \/ q.msg = "Invalid or expired token"
BearerWord(a) == a.k = "word" /\ a.v \in {"Bearer", "bearer", "BEARER"}

(* The header forms: scheme, whitespace, one token segment (as claimed),   *)
(* and scheme, one space, a rest without a space (possibly empty).         *)
SchemeWhitespaceToken(h) ==
    /\ Len(h) >= 3
    /\ BearerWord(h[1])
    /\ \A i \in 2 .. Len(h) - 1 : h[i].k = "sep"
    /\ h[Len(h)].k # "sep"
SchemeSpaceRest(h) ==
    /\ Len(h) >= 2
    /\ BearerWord(h[1])
    /\ h[2] = Sep(" ")
    /\ \A i \in 3 .. Len(h) : h[i] # Sep(" ")

(* C20, as claimed: AuthMiddleware passes on to ValidateToken the headers  *)
(* made of "bearer" in any case, whitespace and one token segment, and     *)
(* answers every other header 401 without calling ValidateToken.           *)
C20_ParseOnWhitespace ==
    \A q \in OnRecord :
        Screened(q) =>
            /\ SchemeWhitespaceToken(q.shape) <=> CalledValidateToken(q)
            /\ ~SchemeWhitespaceToken(q.shape) => (Answered(q) /\ q.status = 401)

(* C20, amended: AuthMiddleware cuts the header at every single space. A   *)
(* header made of "bearer" in any letter case, one space and a rest        *)
(* without a space is passed on, its rest -- also an empty one -- going to *)
(* ValidateToken, and the request goes on exactly when that token          *)
(* validates. Every other header (none, another scheme, no space, a tab or *)
(* two spaces after the scheme, more than one segment) is answered 401     *)
(* without a call of ValidateToken and without a bound identity.           *)
C20_ParseOnSingleSpace ==
    \A q \in OnRecord :
        Screened(q) =>
            /\ SchemeSpaceRest(q.shape) <=> CalledValidateToken(q)
            /\ ~SchemeSpaceRest(q.shape) =>
                  /\ Answered(q) /\ q.status = 401 /\ q.code = "unauthorized"
                  /\ q.msg = IF q.shape = <<>>
                             THEN "Authorization header required"
                             ELSE "Invalid authorization header format"
                  /\ q.trail = <<"AuthMiddleware">> /\ q.ctx = NoCtx
                  /\ ~q.verified
            /\ SchemeSpaceRest(q.shape) =>
                  IF q.verified
                  THEN /\ InFlight(q) \/ Len(q.trail) > 1
                       /\ q.ctx.userID = q.tok.user_id /\ q.ctx.role = q.tok.role
                  ELSE /\ Answered(q) /\ q.status = 401
                       /\ q.msg = "Invalid or expired token"
                       /\ q.trail = <<"AuthMiddleware">> /\ q.ctx = NoCtx

(* While a request with the scheme in lower case is on its way to its      *)
(* handler, one whose header ends after "Bearer " has had its empty token  *)
(* refused by ValidateToken.                                               *)
C20_Witness ==
    /\ \E r \in Requests :
          /\ InFlight(req[r]) /\ req[r].verified
          /\ req[r].shape = <<Word("bearer"), Sep(" "), Tok(<<>>)>>
    /\ last.shape = <<Word("Bearer"), Sep(" ")>>
    /\ last.status = 401 /\ last.msg = "Invalid or expired token"

(* The identity the request's own token names.                             *)
OwnIdentity(q) ==
    [hasUserID |-> TRUE, userID |-> q.tok.user_id,
     hasRole |-> TRUE, role |-> q.tok.role]
Passed(q) == Screened(q) /\ (InFlight(q) \/ Len(q.trail) > 1)

(* C21: a request that AuthMiddleware let through -- so every request a    *)
(* protected handler runs for -- has in its context the user_id and role   *)
(* claims of the token it presented itself, whatever other requests are    *)
(* in flight; a request AuthMiddleware has not let through has no identity *)
(* bound; and once bound, the identity stays the same in every later step  *)
(* of the request, up to its answer.                                       *)
C21_BindState ==
    \A q \in OnRecord :
        /\ Passed(q) => (q.verified /\ q.ctx = OwnIdentity(q))
        /\ (\E h \in ProtectedHandlers : Ran(q, h)) => q.ctx = OwnIdentity(q)
        /\ ~Passed(q) => q.ctx = NoCtx

C21_BindStep ==
    \A r \in Requests :
        (req[r].ctx # NoCtx /\ req'[r] # req[r]) =>
            IF req'[r] = Idle
            THEN last'.ctx = req[r].ctx /\ last'.tok = req[r].tok
            ELSE req'[r].ctx = req[r].ctx /\ req'[r].tok = req[r].tok

C21_BoundIdentityIsOwn == [](C21_BindState) /\ [][C21_BindStep]_vars

(* Two requests of different users are in flight, one of them inside its   *)
(* handler, each with its own identity.                                    *)
C21_Witness ==
    /\ req[1].pc = "Service.Update" /\ InFlight(req[2])
    /\ req[1].ctx.userID = Ann.ID /\ req[1].ctx.role = "user"
    /\ req[2].ctx.userID = AdminSeed.ID /\ req[2].ctx.role = "admin"
    /\ req[1].tok.user_id = Ann.ID /\ req[2].tok.user_id = AdminSeed.ID

(* C22: HasRoleMiddleware answers a request that has no role bound in its  *)
(* context 403 "forbidden" and does not call the next handler, whatever    *)
(* roles are permitted; it answers a request whose bound role is not among *)
(* the permitted ones 403 "forbidden" likewise, which is every request     *)
(* when no role is permitted; and it calls the next handler, writing no    *)
(* response itself, exactly when a role is bound and is a permitted one.   *)
C22_RoleGate ==
    gate.called =>
        /\ gate.next <=> (gate.ctx.hasRole /\ gate.ctx.role \in gate.requiredRoles)
        /\ ~gate.ctx.hasRole =>
              /\ ~gate.next /\ gate.status = 403 /\ gate.code = "forbidden"
              /\ gate.msg = "Role not found in context"
        /\ (gate.ctx.hasRole /\ gate.ctx.role \notin gate.requiredRoles) =>
              /\ ~gate.next /\ gate.status = 403 /\ gate.code = "forbidden"
              /\ gate.msg = "Insufficient permissions"
        /\ gate.requiredRoles = {} => (~gate.next /\ gate.status = 403)
        /\ gate.next => gate.status = 0

(* A request with a subject but no role has been refused by a gate that    *)
(* permits the empty role.                                                 *)
C22_Witness ==
    /\ gate.called /\ ~gate.ctx.hasRole /\ gate.ctx.hasUserID
    /\ "" \in gate.requiredRoles
    /\ gate.status = 403 /\ ~gate.next

(* The tokens of the GenerateTokens call with the ttl each was built with. *)
Built == {<<gen.access, gen.accessTTL>>, <<gen.refresh, gen.refreshTTL>>}
WholeSeconds(t) == t % TicksPerSecond = 0

(* C23, as claimed: in every token generateToken builds, iat = nbf and     *)
(* exp - nbf is the ttl exactly.                                           *)
C23_ExactLifetime ==
    Issued =>
        \A b \in Built :
            /\ b[1][2].iat = b[1][2].nbf
            /\ b[1][2].exp - b[1][2].nbf = b[2]

(* The clock passed a second between two of the readings: a token of a   *)
(* whole-second ttl has iat before nbf and less than its ttl left at nbf.   *)
C23_ClockMoved ==
    /\ Issued
    /\ gen.access[2].iat < gen.access[2].nbf
    /\ gen.access[2].exp - gen.access[2].nbf < gen.accessTTL
    /\ WholeSeconds(gen.accessTTL)

(* What GenerateTokens returns on the harness's inputs at the present time *)
(* when signing the access token goes as sa and the refresh token as sr.   *)
Outcome(sa, sr) ==
    GenerateTokens(gen.userID, gen.role, gen.secret, gen.accessTTL,
                   gen.refreshTTL, <<now, now, now>>, <<now, now, now>>, sa, sr)

(* C24: GenerateTokens returns an error exactly when signing the access    *)
(* token or signing the refresh token fails, and then both token strings   *)
(* are empty; without an error both are token strings. It never returns    *)
(* one token without the other.                                            *)
C24_AtomicFailure ==
    /\ \A sa \in BOOLEAN, sr \in BOOLEAN :
          /\ Outcome(sa, sr).err # "" <=> ~(sa /\ sr)
          /\ Outcome(sa, sr).err # "" =>
                (Outcome(sa, sr).access = <<>> /\ Outcome(sa, sr).refresh = <<>>)
          /\ Outcome(sa, sr).err = "" =>
                (Len(Outcome(sa, sr).access) = 3 /\ Len(Outcome(sa, sr).refresh) = 3)
    /\ gen.called =>
          IF gen.err # ""
          THEN gen.access = <<>> /\ gen.refresh = <<>>
          ELSE Len(gen.access) = 3 /\ Len(gen.refresh) = 3

(* A call has failed, and one in which only the refresh token could not be *)
(* signed would fail the same way.                                         *)
C24_Witness ==
    /\ gen.called /\ gen.err # ""
    /\ gen.access = <<>> /\ gen.refresh = <<>>
    /\ Outcome(TRUE, FALSE).err = gen.err

(* The errors ValidateToken returns in this state for the token strings a *)
(* client can present.                                                     *)
Presentable == IssuableTokens \cup OutsiderTokens
ValidateErrors ==
    {ValidateToken(t, cfg.JWTSecret, now).err : t \in Presentable} \ {""}
Expired(t) == Len(t) = 3 /\ ~(now < t[2].exp)

(* C25, as claimed: ValidateToken returns the same error for every token   *)
(* it refuses, whatever the cause.                                         *)
C25_OneErrorFromValidateToken == Cardinality(ValidateErrors) <= 1

(* C25, amended: ValidateToken returns no claims with every error, and the *)
(* error is "failed to parse token: " followed by the token library's own  *)
(* error, which names the cause -- "token is expired" for an expired token *)
(* of the service, other texts for a malformed or wrongly signed one. It   *)
(* is AuthMiddleware that makes the causes alike: it answers every token   *)
(* ValidateToken refuses 401 "unauthorized" "Invalid or expired token",    *)
(* binds no identity and runs no handler.                                  *)
C25_OneAnswerFromMiddleware ==
    (Screened(last) /\ SchemeSpaceRest(last.shape) /\ ~last.verified) =>
        /\ Answered(last) /\ last.status = 401 /\ last.code = "unauthorized"
        /\ last.msg = "Invalid or expired token"
        /\ last.msg \notin ValidateErrors
        /\ last.data = NoData /\ last.ctx = NoCtx
        /\ last.trail = <<"AuthMiddleware">>
        /\ \A t \in Presentable :
              LET out == ValidateToken(t, cfg.JWTSecret, now)
                  err == ParseWithClaims(t, cfg.JWTSecret, now)
              IN  /\ out.err # "" <=> err # ""
                  /\ out.err # "" =>
                        /\ out.claims = NoClaims
                        /\ out.err = "failed to parse token: " \o err
                  /\ (t \in IssuableTokens /\ Expired(t)) =>
                        out.err = "failed to parse token: token has invalid claims: token is expired"
                  /\ (t \notin IssuableTokens /\ out.err # "") =>
                        out.err # "failed to parse token: token has invalid claims: token is expired"

(* A request with an expired token of the service has been answered, in a  *)
(* state where ValidateToken has more than one error to give.              *)
C25_Witness ==
    /\ Screened(last) /\ last.late /\ last.tok.role \in Roles
    /\ \E u \in users : u.ID = last.tok.user_id /\ u.Role = last.tok.role
    /\ last.status = 401 /\ last.msg = "Invalid or expired token"
    /\ Cardinality(ValidateErrors) >= 2

(* C26: a Login calls the store once, to read, and never writes: the users *)
(* table is the same after it; a Register calls the store at most once, to *)
(* write (not at all when hashing fails), and never reads: it adds one row *)
(* or none. When the store call fails, its error is what the service       *)
(* returns, nothing is stored, no token is issued, and the call is not     *)
(* made again.                                                             *)
C26_StoreCallsState ==
    /\ LoginCalled =>
          /\ last.reads = 1 /\ last.writes = 0
          /\ StoreFailed =>
                (last.svc.access = <<>> /\ last.svc.refresh = <<>> /\ last.data = NoData)
    /\ RegisterCalled =>
          /\ last.reads = 0 /\ last.writes <= 1
          /\ last.writes = 0 <=> last.svc.err = "bcrypt: failure"
          /\ StoreFailed => (last.svc.user = <<NoUser>> /\ last.data = NoData)
          /\ last.svc.err = "" => last.svc.user[1] \in users

C26_StoreCallsStep ==
    /\ (last' # last /\ last'.route = "Login") => users' = users
    /\ (last' # last /\ last'.route = "Login" /\ last'.svc.err = "db error") =>
          now' = now
    /\ (last' # last /\ last'.route = "Register") =>
          IF last'.svc.called /\ last'.svc.err = ""
          THEN /\ users' = users \cup {last'.svc.user[1]}
               /\ last'.svc.user[1] \notin users
               /\ last'.writes = 1
          ELSE users' = users

C26_OneStoreCall == [](C26_StoreCallsState) /\ [][C26_StoreCallsStep]_vars

(* A registration whose one write failed has been answered, the store as   *)
(* it was.                                                                 *)
C26_Witness ==
    /\ RegisterCalled /\ StoreFailed
    /\ last.writes = 1 /\ last.status = 500
    /\ ~Known(last.svc.args[2])

(* The times a token can be presented at.                                  *)
Times == 0 .. MaxTime

(* C27: the refresh token a Login returns validates, with the secret of    *)
(* the service, at every time before its expiry, the times after the       *)
(* expiry of the access token of the same login among them, and gives      *)
(* the user_id and role the access token gives. A request that presents an *)
(* unexpired refresh token after the access token of its login has         *)
(* expired passes AuthMiddleware with the subject and role of the user who *)
(* logged in bound.                                                        *)
C27_RefreshTokenAccepted ==
    /\ (LoginCalled /\ last.svc.err = "") =>
          \A t \in Times :
              LET out == ValidateToken(last.svc.refresh, cfg.JWTSecret, t)
              IN  /\ out.err = "" <=> (t < last.svc.refresh[2].exp
                                         /\ t >= last.svc.refresh[2].nbf)
                  /\ out.err = "" =>
                        /\ out.claims.user_id = last.svc.access[2].user_id
                        /\ out.claims.role = last.svc.access[2].role
    /\ \A q \in OnRecord :
          q.outlived =>
              /\ q.verified /\ Passed(q)
              /\ q.ctx = OwnIdentity(q)
              /\ \E u \in users : u.ID = q.ctx.userID /\ u.Role = q.ctx.role

(* A user's request with a refresh token has reached its handler after     *)
(* the access token of the same login expired.                             *)
C27_Witness ==
    \E r \in Requests :
        /\ InFlight(req[r]) /\ req[r].outlived
        /\ req[r].pc \in ProtectedHandlers
        /\ req[r].ctx.role = "user"
        /\ \E u \in users : u.ID = req[r].ctx.userID /\ u.Role = "user"

----------------------------------------------------------------------------
(* The products the store holds and the copies requests have read from it. *)
Held == {req[r].product : r \in Requests} \ {NoProduct}
Copies == products \cup Held
Mutating(q) == q.pc \in {"Service.Update", "repo.Update", "Service.Delete"}

(* C28: under every interleaving of CreateProduct, UpdateProduct and       *)
(* DeleteProduct a product's ID and OwnerID stay as they were at creation: *)
(* an id names one owner over the store and every copy a request holds,    *)
(* ids are never reused (a new id is the next one, given by CreateProduct), *)
(* no step changes the owner an id names, a write of UpdateProduct changes  *)
(* only Name, Description, Price and Stock of the row with the request's    *)
(* id, and the owner the gate judged is the owner of the row when the       *)
(* mutation is applied.                                                     *)
C28_IdentityState ==
    /\ \A a \in Copies, b \in Copies : a.ID = b.ID => a.OwnerID = b.OwnerID
    /\ \A a \in Copies : a.ID # UUIDNil /\ a.ID < nextPID /\ a.OwnerID # UUIDNil
    /\ \A r \in Requests :
          Mutating(req[r]) =>
              /\ req[r].product.ID = req[r].id
              /\ req[r].product.OwnerID = req[r].owner
              /\ ~OwnershipDenied(req[r].product, req[r].ctx.userID,
                                  req[r].ctx.role)
              /\ \A p \in products :
                    p.ID = req[r].id =>
                        /\ p.OwnerID = req[r].owner
                        /\ ~OwnershipDenied(p, req[r].ctx.userID, req[r].ctx.role)

C28_IdentityStep ==
    /\ \A a \in Copies, b \in Copies' : a.ID = b.ID => a.OwnerID = b.OwnerID
    /\ \A b \in Copies' :
          (\A a \in Copies : a.ID # b.ID) =>
              /\ b.ID = nextPID /\ nextPID' = nextPID + 1
              /\ b \in products'
    /\ nextPID' >= nextPID
    /\ \A r \in Requests :
          (InRepoUpdate(req[r]) /\ req'[r] # req[r] /\ products' # products) =>
              /\ products' \ products = {req[r].product}
              /\ \A p \in products \ products' :
                    /\ p.ID = req[r].id
                    /\ req[r].product = [p EXCEPT !.Name = req[r].body.Name,
                                                  !.Description = req[r].body.Description,
                                                  !.Price = req[r].body.Price,
                                                  !.Stock = req[r].body.Stock]

C28_IdentityFixed == [](C28_IdentityState) /\ [][C28_IdentityStep]_vars

(* The administrator rewrote a product of Ann's, which is still hers.       *)
C28_Witness ==
    /\ Answered(last) /\ last.route = "UpdateProduct" /\ last.status = 200
    /\ last.ctx.role = "admin" /\ last.owner = Ann.ID
    /\ \E p \in products :
          /\ p.ID = last.id /\ p.OwnerID = Ann.ID
          /\ p.Name = last.body.Name

----------------------------------------------------------------------------
(* The product id was given out and has no row: the product was deleted,   *)
(* since only a successful Service.Delete removes a row.                    *)
Deleted(id) == id \in 1 .. (nextPID - 1) /\ Missing(id)

(* C29: once DeleteProduct has deleted product p, p is absent from the     *)
(* store in every later state, also when an UpdateProduct for p that        *)
(* passed its checks runs concurrently: no step brings back a row whose id  *)
(* was deleted, and the write of repo.Update adds no row.                   *)
C29_DeletedStaysAbsent ==
    [][/\ \A p \in products' : ~Deleted(p.ID)
       /\ \A r \in Requests :
             (InRepoUpdate(req[r]) /\ req'[r] # req[r]) =>
                 {p.ID : p \in products'} = {p.ID : p \in products}]_vars

(* A request is about to save a product whose row is gone.                  *)
C29_Reachable ==
    \E r \in Requests : InRepoUpdate(req[r]) /\ Deleted(req[r].product.ID)

----------------------------------------------------------------------------
NoAdminRow == \A u \in users : u.Role # "admin"
Applies(q) == q.pc \in {"repo.Update", "Service.Delete"}

(* C30: from a store without an administrator, after any sequence of       *)
(* register, login and product requests: the store holds no administrator,  *)
(* no token a Login issues carries the role "admin", the role and the       *)
(* subject of every issued token are those stored for the identity that     *)
(* logged in, no request binds the role "admin" or passes                   *)
(* HasRoleMiddleware("admin") (the users route answers 401 or 403 and its   *)
(* handler never runs), and no product is updated or deleted by a subject   *)
(* other than its owner.                                                    *)
C30_NoEscalationState ==
    /\ NoAdminRow
    /\ (LoginCalled /\ last.svc.err = "") =>
          \E u \in users :
              /\ u.Email = last.svc.args[1]
              /\ \A t \in {last.svc.access, last.svc.refresh} :
                    /\ t[2].role = u.Role /\ t[2].role # "admin"
                    /\ t[2].user_id = u.ID /\ t[2].sub = UUIDString(u.ID)
    /\ \A q \in OnRecord :
          /\ q.ctx.role # "admin"
          /\ q.ctx.hasUserID => \E u \in users : u.ID = q.ctx.userID
                                                  /\ u.Role = q.ctx.role
          /\ q.pc # "ListUsers" /\ ~Ran(q, "ListUsers")
          /\ (Answered(q) /\ q.route = "ListUsers") => q.status \in {401, 403}
          /\ (Mutating(q) \/ (Answered(q) /\ q.writes > 0
                              /\ q.route \in {"UpdateProduct", "DeleteProduct"})) =>
                q.owner = q.ctx.userID

C30_NoEscalationStep ==
    \A r \in Requests :
        (Applies(req[r]) /\ req'[r] # req[r]) =>
            \A p \in (products \ products') \cup (products' \ products) :
                p.OwnerID = req[r].ctx.userID

C30_NoEscalation == [](C30_NoEscalationState) /\ [][C30_NoEscalationStep]_vars

(* Two users; one, holding a token a Login issued, was refused the users    *)
(* list, or was refused a change to a product of the other.                 *)
C30_Witness ==
    /\ Cardinality(users) = 2
    /\ Answered(last) /\ last.verified /\ last.status = 403
    /\ \/ last.route = "ListUsers"
       \/ /\ last.route \in {"UpdateProduct", "DeleteProduct"}
          /\ last.owner # last.ctx.userID
          /\ \E p \in products : p.ID = last.id /\ p.OwnerID = last.owner

====
